---- MODULE Spec2Model ----
(***************************************************************************)
(* Model of the bindu-edge gateway: a fleet of edge pods that admit agent  *)
(* WebSocket sessions (app/api/ws_tunnel.py), record tunnel ownership in a *)
(* shared Redis store (app/services/tunnel_registry.py), keep the local    *)
(* tunnel and pending-request tables (app/services/tunnel_manager.py) and  *)
(* forward HTTP requests through the tunnels (app/api/http_tunnel.py).     *)
(*                                                                         *)
(* The specifications share the definitions below:                         *)
(*   Spec           the fleet: admission, registration, cleanup, key       *)
(*                  expiry and pod shutdown, one store command at a time;  *)
(*   SpecUnexpired  the fleet while no ownership key expires;              *)
(*   SpecFwd        one pod forwarding HTTP requests over admitted         *)
(*                  sessions, the per-request timer counted in seconds;    *)
(*   SpecWait       the forwarding of sent requests, with fairness;        *)
(*   SpecCross      two tunnels admitted on one pod;                       *)
(*   SpecHb         one admitted session and its heartbeat task, with the  *)
(*                  clock counted in seconds;                              *)
(*   SpecLoop       the receive loop and the frames an agent can send;     *)
(*   SpecEnd        the end of sessions on one pod, with fairness;         *)
(*   SpecRender     the rendering of an agent's response headers;          *)
(*   SpecSlug       the slug cache and the store's clock.                  *)
(***************************************************************************)
EXTENDS Integers, Sequences, FiniteSets, TLC

\* ---------------------------------------------------------------------
\* Universe
\* ---------------------------------------------------------------------
Pods == {"podA", "podB"}
Tunnels == {"tunnel_test123", "tunnel_abc456"}
MaxSessions == 2
Sessions == 1 .. MaxSessions
NoSession == 0
Nil == "nil"

\* What the agent put in the X-Tunnel-Token header, relative to the token the
\* Control Plane holds for the tunnel_id of the URL.
Tokens == {"missing", "wrong_token", "valid_token"}

VARIABLES
    mock_mode,        \* ControlPlaneClient._mock_mode: True as constructed, False against a Control Plane
    pod_state,        \* per pod: "up", "draining" (disconnect() has read the pod set), "down"
    teardown_ids,     \* per pod: the tunnel_ids disconnect() read with SMEMBERS
    tunnel_key,       \* store: tunnel:{tunnel_id} -> pod_id, Nil when the key is absent
    pod_tunnels,      \* store: pod:{pod_id}:tunnels
    active_tunnels,   \* per pod: TunnelManager.active_tunnels, tunnel_id -> session holding the Tunnel
    lock,             \* per pod: holder of TunnelManager._lock, NoSession when free
    conn,             \* per session: the websocket_tunnel coroutine and its socket
    race,             \* per tunnel_id: outcomes of SET NX since the key was last absent
    last_pong,        \* per session: seconds elapsed since its Tunnel's last_pong stamp
    heartbeat,        \* per session: where its _heartbeat_loop task stands
    inbox,            \* per session: frames the agent sent that receive_text has not returned yet
    slug_key,         \* store: slug:{slug} -> tunnel_id, Nil when the key is absent
    slug_ttl,         \* store: seconds slug:{slug} has left to live, 0 when the key is absent
    handler,          \* per HTTP request: the forward_request / proxy_static_to_tunnel coroutine
    pending_requests, \* per pod: the keys of TunnelManager.pending_requests
    future,           \* per request_id: the Future create_pending_request made for it
    entry_age,        \* per request_id: seconds its pending_requests entry has existed
    sent_before_pending, \* request_ids whose frame was handed to send_text with no pending entry
    response_data,    \* the agent's response frame the handler renders: its "headers" dict
    response          \* the Response the handler returns: the headers it was built with

fleetVars == <<mock_mode, pod_state, teardown_ids, tunnel_key, pod_tunnels,
               active_tunnels, lock, conn, race>>
sessVars == <<last_pong, heartbeat, inbox>>
renderVars == <<response_data, response>>
fwdVars == <<slug_key, slug_ttl, handler, pending_requests, future, entry_age, sent_before_pending,
             renderVars>>
vars == <<fleetVars, sessVars, fwdVars>>

\* ---------------------------------------------------------------------
\* Control Plane client (app/services/control_plane_client.py)
\* ---------------------------------------------------------------------
\* Answers of POST /api/tunnels/validate as mock_control_plane.py gives them,
\* plus the transient faults of the HTTP call.
CPAnswers == {"401", "404", "200_active", "200_expired", "200_revoked", "transient"}

ValidateAnswers(token) ==
    CASE token = "valid_token" -> CPAnswers \ {"401"}
      [] token = "wrong_token" -> {"401", "404", "transient"}
      [] OTHER -> {"401"}

\* tunnel_token and validation_result are locals of the handler that it does
\* not read again once the tunnel is registered.
ForgetCredentials(c) == [c EXCEPT !.token = Nil, !.answer = Nil, !.asked = FALSE]

\* validate_tunnel with every fault of the call read as a refusal.
validate_tunnel_refusing(mock, answer) ==
    IF mock THEN [none |-> FALSE, valid |-> TRUE, status |-> "active", asked |-> FALSE]
    ELSE CASE answer = "401" ->
                [none |-> FALSE, valid |-> FALSE, status |-> "unauthorized", asked |-> TRUE]
           [] answer = "404" ->
                [none |-> FALSE, valid |-> FALSE, status |-> "not_found", asked |-> TRUE]
           [] answer = "200_active" ->
                [none |-> FALSE, valid |-> TRUE, status |-> "active", asked |-> TRUE]
           [] answer = "200_expired" ->
                [none |-> FALSE, valid |-> FALSE, status |-> "expired", asked |-> TRUE]
           [] answer = "200_revoked" ->
                [none |-> FALSE, valid |-> FALSE, status |-> "revoked", asked |-> TRUE]
           [] OTHER -> [none |-> FALSE, valid |-> FALSE, status |-> "error", asked |-> TRUE]

\* validate_tunnel: the mock branch answers without looking at the token and
\* without a call (asked is whether the POST was made). The Python None is
\* the record whose field none is TRUE.
validate_tunnel(mock, answer) ==
    IF mock THEN [none |-> FALSE, valid |-> TRUE, status |-> "active", asked |-> FALSE]
    ELSE CASE answer = "401" ->
                [none |-> FALSE, valid |-> FALSE, status |-> "unauthorized", asked |-> TRUE]
           [] answer = "404" ->
                [none |-> FALSE, valid |-> FALSE, status |-> "not_found", asked |-> TRUE]
           [] answer = "200_active" ->
                [none |-> FALSE, valid |-> TRUE, status |-> "active", asked |-> TRUE]
           [] answer = "200_expired" ->
                [none |-> FALSE, valid |-> FALSE, status |-> "expired", asked |-> TRUE]
           [] answer = "200_revoked" ->
                [none |-> FALSE, valid |-> FALSE, status |-> "revoked", asked |-> TRUE]
           [] OTHER -> [none |-> TRUE, valid |-> FALSE, status |-> Nil, asked |-> TRUE]

\* ---------------------------------------------------------------------
\* Store commands (Redis), each atomic
\* ---------------------------------------------------------------------
\* SET key value EX ttl, without NX
RedisSet(kv, t, p) == [was_set |-> TRUE, kv |-> [kv EXCEPT ![t] = p]]

\* SET key value NX EX ttl
RedisSetNX(kv, t, p) ==
    IF kv[t] = Nil THEN [was_set |-> TRUE, kv |-> [kv EXCEPT ![t] = p]]
    ELSE [was_set |-> FALSE, kv |-> kv]

\* DEL tunnel:{t}
RedisDel(kv, t) == [kv EXCEPT ![t] = Nil]

\* ---------------------------------------------------------------------
\* Settings (app/core/config.py), in seconds
\* ---------------------------------------------------------------------
REQUEST_TIMEOUT_SECONDS == 30
WS_PING_INTERVAL_SECONDS == 10
WS_PONG_TIMEOUT_SECONDS == 5
TUNNEL_REGISTRY_TTL == 300
SLUG_CACHE_TTL == 60

\* ---------------------------------------------------------------------
\* Initial state
\* ---------------------------------------------------------------------
\* answer is what the Control Plane holds about the tunnel_id and the token
\* of the session, asked whether the handler put the question to it;
\* refused is set by a close that was not preceded by accept. pings counts
\* the ping frames the receive loop has taken, pong_sends the send_text calls
\* it made for pong replies and pongs those of them that returned.
NewConn == [pc |-> "idle", pod |-> Nil, tunnel_id |-> Nil, token |-> Nil,
            answer |-> Nil, asked |-> FALSE, accepted |-> FALSE, refused |-> FALSE, store_error |-> FALSE,
            close_code |-> 0, sock |-> "none", hb |-> "none",
            pings |-> 0, pong_sends |-> 0, pongs |-> 0]

FleetInit ==
    /\ mock_mode \in BOOLEAN
    /\ pod_state = [p \in Pods |-> "up"]
    /\ teardown_ids = [p \in Pods |-> {}]
    /\ tunnel_key = [t \in Tunnels |-> Nil]
    /\ pod_tunnels = [p \in Pods |-> {}]
    /\ active_tunnels = [p \in Pods |-> [t \in Tunnels |-> NoSession]]
    /\ lock = [p \in Pods |-> NoSession]
    /\ conn = [s \in Sessions |-> NewConn]
    /\ race = [t \in Tunnels |-> [won |-> {}, lost |-> {}]]

\* Tunnel.last_pong as the time elapsed since the stamp was taken; the stamp
\* a Tunnel is created with precedes the start of its heartbeat task.
CreationStamp == [elapsed |-> 0, at_creation |-> TRUE]
PongStamp == [elapsed |-> 0, at_creation |-> FALSE]

\* _heartbeat_loop: pc is the sleep the task is in and sleep the seconds left
\* of it. pings counts the pings sent (up to two), since_ping the seconds
\* since the last one and ping_gap the seconds between the last two; ponged
\* records that set_pong has stamped the Tunnel.
NoHeartbeat == [pc |-> "none", sleep |-> 0, pings |-> 0, since_ping |-> 0,
                ping_gap |-> 0, ponged |-> FALSE]
StartHeartbeat == [NoHeartbeat EXCEPT !.pc = "sleep_ping",
                                      !.sleep = WS_PING_INTERVAL_SECONDS]

SessInit ==
    /\ last_pong = [s \in Sessions |-> CreationStamp]
    /\ heartbeat = [s \in Sessions |-> NoHeartbeat]
    /\ inbox = [s \in Sessions |-> <<>>]

NoRace == [won |-> {}, lost |-> {}]

\* The coroutine of session s runs on a pod whose process is alive.
Alive(s) == conn[s].pod \in Pods /\ pod_state[conn[s].pod] # "down"

\* ---------------------------------------------------------------------
\* websocket_tunnel: admission
\* ---------------------------------------------------------------------
\* websocket.accept()
Accept(c) == [c EXCEPT !.accepted = TRUE, !.sock = "open"]

\* websocket.close(code) followed by the handler's return
Close(c, code) ==
    [c EXCEPT !.pc = "end", !.close_code = code, !.sock = "closed",
              !.refused = ~c.accepted]

\* close(code) with no accept() before it
RejectUnaccepted(c, code) == Close(c, code)

\* accept() then close(code): the handshake is acknowledged first.
Reject(c, code) == Close(Accept(c), code)

\* if not tunnel_token, negated
AnyTokenPresent(token) == TRUE
TokenPresent(token) == token # "missing"

\* The handler's decision once validate_tunnel has returned.
AdmissionDecision(c, result) ==
    LET d == [c EXCEPT !.asked = result.asked] IN
    IF result.none THEN Reject(d, 1011)
    ELSE IF ~result.valid THEN Reject(d, 1008)
    ELSE IF result.status # "active" THEN Reject(d, 1008)
    ELSE [Accept(d) EXCEPT !.pc = "register"]

\* Sessions are numbered in order of arrival. Pods and tunnel ids are
\* interchangeable, so the first agent's pod and tunnel id are fixed.
FirstPod == "podA"
FirstTunnel == "tunnel_test123"

\* An agent connects to /ws/{t} on pod p. The handler inspects the header,
\* asks the Control Plane (answer is what the Control Plane says) and accepts
\* or rejects; an accepted session goes on to register_tunnel.
Connect(s, p, t, token, answer) ==
    /\ conn[s].pc = "idle"
    /\ IF s = 1 THEN p = FirstPod /\ t = FirstTunnel ELSE conn[s - 1].pc # "idle"
    /\ pod_state[p] = "up"
    /\ answer \in ValidateAnswers(token)
    /\ LET c == [conn[s] EXCEPT !.pod = p, !.tunnel_id = t, !.token = token,
                                !.answer = answer] IN
       conn' = [conn EXCEPT ![s] =
                   IF ~TokenPresent(token) THEN Reject(c, 1008)
                   ELSE AdmissionDecision(c, validate_tunnel(mock_mode, answer))]
    /\ UNCHANGED <<sessVars, fwdVars>>
    /\ UNCHANGED <<mock_mode, pod_state, teardown_ids, tunnel_key, pod_tunnels,
                   active_tunnels, lock, race>>

\* ---------------------------------------------------------------------
\* TunnelManager.register_tunnel / TunnelRegistry.register_tunnel
\* ---------------------------------------------------------------------
RegisterAcquire(s) ==
    /\ conn[s].pc = "register"
    /\ Alive(s)
    /\ lock[conn[s].pod] = NoSession
    /\ lock' = [lock EXCEPT ![conn[s].pod] = s]
    /\ conn' = [conn EXCEPT ![s].pc = "setnx"]
    /\ UNCHANGED <<sessVars, fwdVars>>
    /\ UNCHANGED <<mock_mode, pod_state, teardown_ids, tunnel_key, pod_tunnels,
                   active_tunnels, race>>

\* The store executes SET tunnel:{t} pod NX EX ttl.
RegisterSetNX(s) ==
    /\ conn[s].pc = "setnx"
    /\ Alive(s)
    /\ LET t == conn[s].tunnel_id
           r == RedisSetNX(tunnel_key, t, conn[s].pod) IN
       /\ tunnel_key' = r.kv
       /\ conn' = [conn EXCEPT ![s].pc = IF r.was_set THEN "sadd" ELSE "get"]
       /\ race' = [race EXCEPT ![t] =
                      IF r.was_set THEN [@ EXCEPT !.won = @ \cup {s}]
                      ELSE [@ EXCEPT !.lost = @ \cup {s}]]
    /\ UNCHANGED <<sessVars, fwdVars>>
    /\ UNCHANGED <<mock_mode, pod_state, teardown_ids, pod_tunnels,
                   active_tunnels, lock>>

\* The store executes SADD; register_tunnel returns True, the manager stores
\* the Tunnel and releases the lock, and the handler starts the heartbeat.
RegisterSAdd(s) ==
    /\ conn[s].pc = "sadd"
    /\ Alive(s)
    /\ LET p == conn[s].pod
           t == conn[s].tunnel_id IN
       /\ pod_tunnels' = [pod_tunnels EXCEPT ![p] = @ \cup {t}]
       /\ active_tunnels' = [active_tunnels EXCEPT ![p][t] = s]
       /\ lock' = [lock EXCEPT ![p] = NoSession]
       /\ conn' = [conn EXCEPT ![s] = [ForgetCredentials(@) EXCEPT
                                          !.pc = "open", !.hb = "running"]]
       /\ last_pong' = [last_pong EXCEPT ![s] = CreationStamp]
       /\ heartbeat' = [heartbeat EXCEPT ![s] = StartHeartbeat]
    /\ UNCHANGED <<inbox, fwdVars>>
    /\ UNCHANGED <<mock_mode, pod_state, teardown_ids, tunnel_key, race>>

\* The refusal followed by the removal a finally clause would run: the entry
\* stored under the tunnel_id is popped and the store's record is next.
RegisterGetThenRemove(s) ==
    /\ conn[s].pc = "get"
    /\ Alive(s)
    /\ active_tunnels' = [active_tunnels EXCEPT ![conn[s].pod][conn[s].tunnel_id] = NoSession]
    /\ conn' = [conn EXCEPT ![s] = [Close(@, 1008) EXCEPT !.pc = "remove_store"]]
    /\ UNCHANGED <<sessVars, fwdVars>>
    /\ UNCHANGED <<mock_mode, pod_state, teardown_ids, tunnel_key, pod_tunnels,
                   lock, race>>

\* The store executes GET (the holder is only logged); register_tunnel returns
\* False, the manager raises ValueError and the handler closes with 1008.
RegisterGet(s) ==
    /\ conn[s].pc = "get"
    /\ Alive(s)
    /\ lock' = [lock EXCEPT ![conn[s].pod] = NoSession]
    /\ conn' = [conn EXCEPT ![s] = Close(@, 1008)]
    /\ UNCHANGED <<sessVars, fwdVars>>
    /\ UNCHANGED <<mock_mode, pod_state, teardown_ids, tunnel_key, pod_tunnels,
                   active_tunnels, race>>

\* A store error read as a successful registration: the Tunnel is stored and
\* the heartbeat started although the ownership record may be missing.
RegisterStoreErrorIgnored(s, applied) ==
    /\ conn[s].pc \in {"setnx", "sadd", "get"}
    /\ Alive(s)
    /\ LET p == conn[s].pod
           t == conn[s].tunnel_id IN
       /\ tunnel_key' = IF conn[s].pc = "setnx" /\ applied
                        THEN RedisSetNX(tunnel_key, t, p).kv ELSE tunnel_key
       /\ race' = IF conn[s].pc = "setnx" /\ applied
                  THEN [race EXCEPT ![t] =
                           IF RedisSetNX(tunnel_key, t, p).was_set
                           THEN [@ EXCEPT !.won = @ \cup {s}]
                           ELSE [@ EXCEPT !.lost = @ \cup {s}]]
                  ELSE race
       /\ pod_tunnels' = IF conn[s].pc = "sadd" /\ applied
                         THEN [pod_tunnels EXCEPT ![p] = @ \cup {t}] ELSE pod_tunnels
       /\ active_tunnels' = [active_tunnels EXCEPT ![p][t] = s]
       /\ lock' = [lock EXCEPT ![p] = NoSession]
       /\ conn' = [conn EXCEPT ![s] = [ForgetCredentials(@) EXCEPT
                                          !.pc = "open", !.hb = "running",
                                          !.store_error = TRUE]]
       /\ last_pong' = [last_pong EXCEPT ![s] = CreationStamp]
       /\ heartbeat' = [heartbeat EXCEPT ![s] = StartHeartbeat]
    /\ UNCHANGED <<inbox, fwdVars>>
    /\ UNCHANGED <<mock_mode, pod_state, teardown_ids>>

\* An exception leaves websocket_tunnel: the handler sends no close frame of
\* its own and the server drops the connection it had accepted.
Abort(c) == [c EXCEPT !.pc = "end", !.sock = "closed", !.store_error = TRUE]

\* A command of TunnelRegistry.register_tunnel (SET NX, SADD or GET) raises.
\* The store may or may not have applied it. The exception is no ValueError:
\* it releases the manager's lock on its way out of register_tunnel and
\* leaves the handler before a Tunnel is stored or a heartbeat started, and
\* outside the try/finally that calls remove_tunnel.
RegisterStoreError(s, applied) ==
    /\ conn[s].pc \in {"setnx", "sadd", "get"}
    /\ Alive(s)
    /\ LET p == conn[s].pod
           t == conn[s].tunnel_id IN
       /\ tunnel_key' = IF conn[s].pc = "setnx" /\ applied
                        THEN RedisSetNX(tunnel_key, t, p).kv ELSE tunnel_key
       /\ race' = IF conn[s].pc = "setnx" /\ applied
                  THEN [race EXCEPT ![t] =
                           IF RedisSetNX(tunnel_key, t, p).was_set
                           THEN [@ EXCEPT !.won = @ \cup {s}]
                           ELSE [@ EXCEPT !.lost = @ \cup {s}]]
                  ELSE race
       /\ pod_tunnels' = IF conn[s].pc = "sadd" /\ applied
                         THEN [pod_tunnels EXCEPT ![p] = @ \cup {t}] ELSE pod_tunnels
       /\ lock' = [lock EXCEPT ![p] = NoSession]
       /\ conn' = [conn EXCEPT ![s] = Abort(@)]
    /\ UNCHANGED <<sessVars, fwdVars>>
    /\ UNCHANGED <<mock_mode, pod_state, teardown_ids, active_tunnels>>

\* ---------------------------------------------------------------------
\* websocket_tunnel: the session and its end
\* ---------------------------------------------------------------------
\* The agent closes its end of the socket: once the frames it sent before
\* have been read, receive_text raises WebSocketDisconnect, the loop ends and
\* the finally clause calls remove_tunnel, which waits for the lock.
AgentDisconnect(s) ==
    /\ conn[s].pc = "open"
    /\ conn[s].sock = "open"
    /\ inbox[s] = <<>>
    /\ Alive(s)
    /\ conn' = [conn EXCEPT ![s].sock = "closed", ![s].pc = "cleanup"]
    /\ UNCHANGED <<sessVars, fwdVars>>
    /\ UNCHANGED <<mock_mode, pod_state, teardown_ids, tunnel_key, pod_tunnels,
                   active_tunnels, lock, race>>

\* _heartbeat_loop gives up (a ping could not be sent, or the pong is overdue):
\* it closes the socket and returns. Its timing is that of SpecHb.
HeartbeatClose(s) ==
    /\ conn[s].hb = "running"
    /\ Alive(s)
    /\ conn' = [conn EXCEPT ![s].sock = "closed", ![s].hb = "exited"]
    /\ UNCHANGED <<sessVars, fwdVars>>
    /\ UNCHANGED <<mock_mode, pod_state, teardown_ids, tunnel_key, pod_tunnels,
                   active_tunnels, lock, race>>

\* The socket was closed by the heartbeat: receive_text raises
\* WebSocketDisconnect, frames not read yet are lost, and the finally clause
\* calls remove_tunnel.
LoopDisconnect(s) ==
    /\ conn[s].pc = "open"
    /\ conn[s].sock = "closed"
    /\ Alive(s)
    /\ conn' = [conn EXCEPT ![s].pc = "cleanup"]
    /\ inbox' = [inbox EXCEPT ![s] = <<>>]
    /\ UNCHANGED <<last_pong, heartbeat, fwdVars>>
    /\ UNCHANGED <<mock_mode, pod_state, teardown_ids, tunnel_key, pod_tunnels,
                   active_tunnels, lock, race>>

\* active_tunnels[tunnel_id] with a missing key raising KeyError.
pop_or_raise(d, k) ==
    [value |-> d[k], d |-> [d EXCEPT ![k] = NoSession], raised |-> d[k] = NoSession]

\* self.active_tunnels.pop(tunnel_id, None): the Tunnel stored under the key
\* (NoSession stands for None) and the dict without the key; never raises.
pop(d, k) ==
    [value |-> d[k], d |-> [d EXCEPT ![k] = NoSession], raised |-> FALSE]

\* if tunnel and tunnel.heartbeat_task: tunnel.heartbeat_task.cancel(), on
\* the states of the heartbeat tasks; cancelling a finished task does nothing.
cancel(hb, holder) ==
    IF holder # NoSession /\ hb[holder] = "running"
    THEN [hb EXCEPT ![holder] = "cancelled"]
    ELSE hb

\* heartbeat_task.cancel() of the Tunnel that pop returned, if any.
CancelHeartbeat(cn, holder) ==
    LET hb == cancel([x \in Sessions |-> cn[x].hb], holder) IN
    [x \in Sessions |-> [cn[x] EXCEPT !.hb = hb[x]]]

\* The pipeline of a remove that only deletes the ownership record.
registry_remove_tunnel_del_only(kv, set, t) ==
    [kv |-> RedisDel(kv, t), set |-> set]

\* TunnelRegistry.remove_tunnel: the pipeline DEL tunnel:{t} and
\* SREM pod:{pod_id}:tunnels t; both commands accept a key that is absent.
registry_remove_tunnel(kv, set, t) ==
    [kv |-> RedisDel(kv, t), set |-> set \ {t}]

\* What TunnelManager.remove_tunnel of pod p reads and writes: the pod's
\* table, the heartbeat tasks, the ownership records and the pod's set.
PodView(p) ==
    [active |-> active_tunnels[p], hb |-> [x \in Sessions |-> conn[x].hb],
     kv |-> tunnel_key, set |-> pod_tunnels[p], raised |-> FALSE]

\* TunnelManager.remove_tunnel(tunnel_id) as a whole, from the lock taken to
\* the lock released; raised tells whether an exception left it.
remove_tunnel(v, t) ==
    LET r == pop(v.active, t) IN
    IF r.raised THEN [v EXCEPT !.raised = TRUE]
    ELSE LET w == registry_remove_tunnel(v.kv, v.set, t) IN
         [active |-> r.d, hb |-> cancel(v.hb, r.value), kv |-> w.kv, set |-> w.set,
          raised |-> v.raised]

\* TunnelManager.remove_tunnel up to its await: take the lock, pop the entry
\* stored under tunnel_id, cancel that Tunnel's heartbeat. An exception of
\* the pop would leave the handler from inside its finally clause.
RemoveLocal(s) ==
    /\ conn[s].pc = "cleanup"
    /\ Alive(s)
    /\ lock[conn[s].pod] = NoSession
    /\ LET p == conn[s].pod
           t == conn[s].tunnel_id
           r == pop(active_tunnels[p], t) IN
       IF r.raised
       THEN /\ conn' = [conn EXCEPT ![s].pc = "end", ![s].sock = "closed"]
            /\ UNCHANGED <<lock, active_tunnels>>
       ELSE /\ lock' = [lock EXCEPT ![p] = s]
            /\ active_tunnels' = [active_tunnels EXCEPT ![p] = r.d]
            /\ conn' = [CancelHeartbeat(conn, r.value) EXCEPT ![s].pc = "remove_store"]
    /\ UNCHANGED <<sessVars, fwdVars>>
    /\ UNCHANGED <<mock_mode, pod_state, teardown_ids, tunnel_key, pod_tunnels, race>>

\* TunnelRegistry.remove_tunnel: the store executes the pipeline DEL + SREM,
\* then the manager releases the lock and the handler is over: the server
\* closes a socket that is still open.
RemoveStore(s) ==
    /\ conn[s].pc = "remove_store"
    /\ Alive(s)
    /\ LET p == conn[s].pod
           t == conn[s].tunnel_id
           w == registry_remove_tunnel(tunnel_key, pod_tunnels[p], t) IN
       /\ tunnel_key' = w.kv
       /\ pod_tunnels' = [pod_tunnels EXCEPT ![p] = w.set]
       /\ race' = [race EXCEPT ![t] = NoRace]
       /\ lock' = [lock EXCEPT ![p] = NoSession]
       /\ conn' = [conn EXCEPT ![s].pc = "end", ![s].sock = "closed"]
    /\ UNCHANGED <<sessVars, fwdVars>>
    /\ UNCHANGED <<mock_mode, pod_state, teardown_ids, active_tunnels>>

\* ---------------------------------------------------------------------
\* The store's clock: tunnel:{t} was written with EX TUNNEL_REGISTRY_TTL and
\* nothing calls refresh_tunnel_ttl, so the key expires.
\* ---------------------------------------------------------------------
ExpireTunnelKey(t) ==
    /\ tunnel_key[t] # Nil
    /\ tunnel_key' = RedisDel(tunnel_key, t)
    /\ race' = [race EXCEPT ![t] = NoRace]
    /\ UNCHANGED <<sessVars, fwdVars>>
    /\ UNCHANGED <<mock_mode, pod_state, teardown_ids, pod_tunnels,
                   active_tunnels, lock, conn>>

\* ---------------------------------------------------------------------
\* shutdown_event -> TunnelRegistry.disconnect
\* ---------------------------------------------------------------------
\* SMEMBERS pod:{p}:tunnels
TeardownRead(p) ==
    /\ pod_state[p] = "up"
    /\ pod_state' = [pod_state EXCEPT ![p] = "draining"]
    /\ teardown_ids' = [teardown_ids EXCEPT ![p] = pod_tunnels[p]]
    /\ UNCHANGED <<sessVars, fwdVars>>
    /\ UNCHANGED <<mock_mode, tunnel_key, pod_tunnels, active_tunnels, lock, conn, race>>

\* The pipeline of DELs runs only when the set that was read is not empty;
\* then the connection is closed and the process exits: its tables, its lock
\* and the coroutines of its sessions are gone.
Killed(c) == [NewConn EXCEPT !.pc = "killed", !.pod = c.pod]

TeardownExec(p) ==
    /\ pod_state[p] = "draining"
    /\ LET ids == teardown_ids[p] IN
       /\ tunnel_key' = [t \in Tunnels |-> IF t \in ids THEN Nil ELSE tunnel_key[t]]
       /\ pod_tunnels' = [pod_tunnels EXCEPT ![p] = IF ids # {} THEN {} ELSE @]
       /\ race' = [t \in Tunnels |-> IF t \in ids THEN NoRace ELSE race[t]]
    /\ pod_state' = [pod_state EXCEPT ![p] = "down"]
    /\ active_tunnels' = [active_tunnels EXCEPT ![p] = [t \in Tunnels |-> NoSession]]
    /\ lock' = [lock EXCEPT ![p] = NoSession]
    /\ teardown_ids' = [teardown_ids EXCEPT ![p] = {}]
    /\ conn' = [s \in Sessions |->
                   IF conn[s].pod = p /\ conn[s].pc # "end" THEN Killed(conn[s])
                   ELSE conn[s]]
    /\ last_pong' = [s \in Sessions |->
                        IF conn[s].pod = p /\ conn[s].pc # "end" THEN CreationStamp
                        ELSE last_pong[s]]
    /\ heartbeat' = [s \in Sessions |->
                        IF conn[s].pod = p /\ conn[s].pc # "end" THEN NoHeartbeat
                        ELSE heartbeat[s]]
    /\ UNCHANGED <<inbox, fwdVars>>
    /\ UNCHANGED mock_mode

\* ---------------------------------------------------------------------
\* HTTP forwarder (app/api/http_tunnel.py) and the pending-request table
\* ---------------------------------------------------------------------
MaxHandlers == 2
Handlers == 1 .. MaxHandlers
\* request_id = str(uuid.uuid4()): every handler draws an id of its own.
RequestIds == Handlers
NoRequest == 0

\* "my-slug" is known to the Control Plane (MOCK_SLUGS, SLUG_DATABASE) and
\* names the first tunnel; "nope" is unknown to it.
Slugs == {"my-slug", "nope"}
SlugTunnel(slug) == FirstTunnel
Routes == {"local_tunnel", "static"}

\* Answers of GET /api/tunnels/resolve/{slug} plus the transient faults of the call.
ResolveAnswers(slug) ==
    IF slug = "my-slug" THEN {"200_active", "200_expired", "200_revoked", "transient"}
    ELSE {"404", "transient"}

\* resolve_slug: None (field none) for an unknown slug and for every fault.
resolve_slug(mock, slug, answer) ==
    IF mock
    THEN IF slug = "my-slug"
         THEN [none |-> FALSE, tunnel_id |-> SlugTunnel(slug), status |-> "active"]
         ELSE [none |-> TRUE, tunnel_id |-> Nil, status |-> Nil]
    ELSE CASE answer = "200_active" ->
                [none |-> FALSE, tunnel_id |-> SlugTunnel(slug), status |-> "active"]
           [] answer = "200_expired" ->
                [none |-> FALSE, tunnel_id |-> SlugTunnel(slug), status |-> "expired"]
           [] answer = "200_revoked" ->
                [none |-> FALSE, tunnel_id |-> SlugTunnel(slug), status |-> "revoked"]
           [] OTHER -> [none |-> TRUE, tunnel_id |-> Nil, status |-> Nil]

\* Text frames an agent sends. bytes is the length of the text in UTF-8 and
\* text what json.loads makes of it: "empty" for the empty string,
\* "bad_json" when it raises JSONDecodeError, "non_object" for JSON that is
\* no dict (a list, a number, a string, null), "object" for a dict, whose
\* "type" and "request_id" follow (Nil and NoRequest when the key is
\* missing). via is filled in by the loop that received the frame.
MAX_WS_PAYLOAD_BYTES == 65536
SmallBytes == 64
Message(bytes, text, type, request_id) ==
    [bytes |-> bytes, text |-> text, type |-> type, request_id |-> request_id,
     via |-> NoSession]
ResponseFrame(r) == Message(SmallBytes, "object", "response", r)
PongFrame == Message(SmallBytes, "object", "pong", NoRequest)
PingFrame == Message(SmallBytes, "object", "ping", NoRequest)
EmptyFrame == Message(0, "empty", Nil, NoRequest)
BadJsonFrame == Message(SmallBytes, "bad_json", Nil, NoRequest)
NonObjectFrame == Message(SmallBytes, "non_object", Nil, NoRequest)
UnknownTypeFrame == Message(SmallBytes, "object", "status", NoRequest)
\* A frame of exactly the limit and one a byte longer, both carrying a
\* well-formed response.
LimitFrame(r) == Message(MAX_WS_PAYLOAD_BYTES, "object", "response", r)
OversizeFrame(r) == Message(MAX_WS_PAYLOAD_BYTES + 1, "object", "response", r)
MaxInbox == 2
MaxPings == 2

\* cache_failed: the store raised on the read of slug:{slug}.
\* oversize: the frame json.dumps built for the request is larger than
\* MAX_WS_PAYLOAD_BYTES.
NewHandler == [pc |-> "idle", pod |-> Nil, route |-> Nil, slug |-> Nil,
               cache_failed |-> FALSE, oversize |-> FALSE,
               answer |-> "unasked", tunnel_id |-> Nil, ws |-> NoSession,
               status |-> 0, reply |-> NoRequest, waited |-> 0]
\* via: the session whose receive loop completed the future.
NoFuture == [state |-> "none", reply |-> NoRequest, via |-> NoSession]

\* A dict of headers: a function from the names it holds to their values.
NoHeaders == [k \in {} |-> ""]
NoResponse == [rendered |-> FALSE, headers |-> NoHeaders]

FwdIdle ==
    /\ response_data = [headers |-> NoHeaders]
    /\ response = NoResponse
    /\ slug_key = [g \in Slugs |-> Nil]
    /\ slug_ttl = [g \in Slugs |-> 0]
    /\ handler = [h \in Handlers |-> NewHandler]
    /\ pending_requests = [p \in Pods |-> {}]
    /\ future = [r \in RequestIds |-> NoFuture]
    /\ entry_age = [r \in RequestIds |-> 0]
    /\ sent_before_pending = {}

\* The forwarder's tables as one value, so that the steps of a handler
\* compose in the order the code runs them.
FwdState == [handler |-> handler, pending |-> pending_requests, future |-> future,
             age |-> entry_age, sbp |-> sent_before_pending]

Commit(st) ==
    /\ handler' = st.handler
    /\ pending_requests' = st.pending
    /\ future' = st.future
    /\ entry_age' = st.age
    /\ sent_before_pending' = st.sbp
    /\ UNCHANGED renderVars

\* raise HTTPException(status) / return Response: the handler is over and
\* its locals are gone; of the frame only a refusal for its size is kept.
Finish(st, h, status) ==
    [st EXCEPT !.handler[h].pc = "done", !.handler[h].status = status,
               !.handler[h].tunnel_id = Nil,
               !.handler[h].oversize = (status = 413)]

\* TunnelManager.create_pending_request
create_pending_request(st, p, rid) ==
    [st EXCEPT !.pending[p] = @ \cup {rid},
               !.future[rid] = [state |-> "pending", reply |-> NoRequest, via |-> NoSession],
               !.age[rid] = 0]

\* tunnel_manager.pending_requests.pop(request_id, None)
drop_pending_noop(st, p, rid) == st
drop_pending(st, p, rid) ==
    [st EXCEPT !.pending[p] = @ \ {rid}, !.age[rid] = 0]

\* await websocket.send_text(payload_text): the frame is handed to the socket
\* and the handler is suspended until the send returns or raises.
send_text(st, h) ==
    [st EXCEPT !.handler[h].pc = "sending",
               !.sbp = IF h \in st.pending[st.handler[h].pod] THEN @ ELSE @ \cup {h}]

\* The pending entry and the hand-off of the frame, with no await in between.
SendThenCreate(st, h) ==
    create_pending_request(send_text(st, h), st.handler[h].pod, h)
CreateThenSend(st, h) ==
    send_text(create_pending_request(st, st.handler[h].pod, h), h)

\* TunnelManager.resolve_request
resolve_request_oldest(st, p, request_id, data) ==
    IF st.pending[p] # {}
    THEN LET key == CHOOSE k \in st.pending[p] : \A j \in st.pending[p] : k <= j
             st1 == drop_pending(st, p, key) IN
         IF st.future[key].state = "pending"
         THEN [st1 EXCEPT !.future[key] = [state |-> "done", reply |-> data.request_id,
                                          via |-> data.via]]
         ELSE st1
    ELSE st
resolve_request(st, p, request_id, data) ==
    IF request_id \in st.pending[p]
    THEN LET st1 == drop_pending(st, p, request_id) IN
         IF st.future[request_id].state = "pending"
         THEN [st1 EXCEPT !.future[request_id] =
                              [state |-> "done", reply |-> data.request_id,
                               via |-> data.via]]
         ELSE st1
    ELSE st

\* The lookup of a forwarder that goes to whichever pod holds the tunnel.
AfterLookupAnyPod(st, h, tid, oversize) ==
    LET c == st.handler[h]
        holders == {active_tunnels[p][tid] : p \in Pods} \ {NoSession}
        ws == IF holders = {} THEN NoSession ELSE CHOOSE s \in holders : TRUE
        st1 == [st EXCEPT !.handler[h].tunnel_id = tid, !.handler[h].ws = ws] IN
    IF ws = NoSession THEN Finish(st1, h, 503)
    ELSE IF c.route = "local_tunnel" THEN [st1 EXCEPT !.handler[h].pc = "body"]
    ELSE CreateThenSend([st1 EXCEPT !.handler[h].oversize = oversize], h)

\* tunnel_manager.get_tunnel(tunnel_id) and what follows it up to the next
\* await: 503 when this pod has no entry; /local_tunnel goes on to read the
\* body, /static builds its frame at once and, whatever its size (oversize),
\* registers it and hands it to the socket.
AfterLookup(st, h, tid, oversize) ==
    LET c == st.handler[h]
        ws == active_tunnels[c.pod][tid]
        st1 == [st EXCEPT !.handler[h].tunnel_id = tid, !.handler[h].ws = ws] IN
    IF ws = NoSession THEN Finish(st1, h, 503)
    ELSE IF c.route = "local_tunnel" THEN [st1 EXCEPT !.handler[h].pc = "body"]
    ELSE CreateThenSend([st1 EXCEPT !.handler[h].oversize = oversize], h)

\* get_cached_slug: the store executes GET slug:{slug}, or the command fails
\* and the redis client's exception goes up to the caller (raised |-> TRUE).
CacheReads == {"ok", "error"}
get_cached_slug(kv, slug, cache_read) ==
    IF cache_read = "error" THEN [raised |-> TRUE, tunnel_id |-> Nil]
    ELSE [raised |-> FALSE, tunnel_id |-> kv[slug]]

\* A handler that asks the Control Plane again although the cache answered.
HttpRequestRevalidating(h, p, route, slug, cache_read, oversize) ==
    /\ handler[h].pc = "idle"
    /\ oversize => route = "static" /\ cache_read = "ok" /\ slug_key[slug] # Nil
    /\ IF h = 1 THEN TRUE ELSE handler[h - 1].pc # "idle"
    /\ pod_state[p] = "up"
    /\ LET st == [FwdState EXCEPT !.handler[h].pod = p, !.handler[h].route = route,
                                  !.handler[h].slug = slug]
           cached == get_cached_slug(slug_key, slug, cache_read) IN
       IF cached.raised
       THEN Commit(Finish([st EXCEPT !.handler[h].cache_failed = TRUE], h, 500))
       ELSE Commit([st EXCEPT !.handler[h].pc = "resolve"])
    /\ UNCHANGED <<fleetVars, sessVars, slug_key, slug_ttl>>

\* A request arrives on pod p and the handler reads the slug cache. On the
\* /static route the slug is the one the Referer header names. An exception
\* of the read is caught nowhere in the handler: the server answers 500.
HttpRequest(h, p, route, slug, cache_read, oversize) ==
    /\ handler[h].pc = "idle"
    /\ oversize => route = "static" /\ cache_read = "ok" /\ slug_key[slug] # Nil
    /\ IF h = 1 THEN TRUE ELSE handler[h - 1].pc # "idle"
    /\ pod_state[p] = "up"
    /\ LET st == [FwdState EXCEPT !.handler[h].pod = p, !.handler[h].route = route,
                                  !.handler[h].slug = slug]
           cached == get_cached_slug(slug_key, slug, cache_read) IN
       IF cached.raised
       THEN Commit(Finish([st EXCEPT !.handler[h].cache_failed = TRUE], h, 500))
       ELSE IF cached.tunnel_id # Nil
       THEN Commit(AfterLookup(st, h, cached.tunnel_id, oversize))
       ELSE Commit([st EXCEPT !.handler[h].pc = "resolve"])
    /\ UNCHANGED <<fleetVars, sessVars, slug_key, slug_ttl>>

\* resolve_slug returns and the record is cached before its status is read.
ResolveReturnCachingFirst(h, answer) ==
    /\ handler[h].pc = "resolve"
    /\ answer \in ResolveAnswers(handler[h].slug)
    /\ LET r == resolve_slug(mock_mode, handler[h].slug, answer)
           st == [FwdState EXCEPT !.handler[h].answer =
                                      IF mock_mode THEN "unasked" ELSE answer] IN
       /\ slug_key' = IF r.none THEN slug_key
                      ELSE [slug_key EXCEPT ![handler[h].slug] = r.tunnel_id]
       /\ slug_ttl' = IF r.none THEN slug_ttl
                      ELSE [slug_ttl EXCEPT ![handler[h].slug] = SLUG_CACHE_TTL]
       /\ IF r.none THEN Commit(Finish(st, h, 404))
          ELSE IF r.status # "active" THEN Commit(Finish(st, h, 410))
          ELSE Commit([st EXCEPT !.handler[h].pc = "cache_set",
                                 !.handler[h].tunnel_id = r.tunnel_id])
    /\ UNCHANGED <<fleetVars, sessVars>>

\* control_plane_client.resolve_slug returns: 404 when it gave None, 410 when
\* the record's status is not "active"; else the handler goes on to cache it.
ResolveReturn(h, answer) ==
    /\ handler[h].pc = "resolve"
    /\ answer \in ResolveAnswers(handler[h].slug)
    /\ LET r == resolve_slug(mock_mode, handler[h].slug, answer)
           st == [FwdState EXCEPT !.handler[h].answer =
                                      IF mock_mode THEN "unasked" ELSE answer] IN
       IF r.none THEN Commit(Finish(st, h, 404))
       ELSE IF r.status # "active" THEN Commit(Finish(st, h, 410))
       ELSE Commit([st EXCEPT !.handler[h].pc = "cache_set",
                              !.handler[h].tunnel_id = r.tunnel_id])
    /\ UNCHANGED <<fleetVars, sessVars, slug_key, slug_ttl>>

\* The slug written with the lifetime of an ownership record.
cache_slug_resolution_registry_ttl(kv, ttl, slug, tunnel_id) ==
    [kv |-> [kv EXCEPT ![slug] = tunnel_id],
     ttl |-> [ttl EXCEPT ![slug] = TUNNEL_REGISTRY_TTL]]

\* cache_slug_resolution: SET slug:{slug} tunnel_id EX SLUG_CACHE_TTL. The
\* store overwrites the value and starts the key's lifetime anew.
cache_slug_resolution(kv, ttl, slug, tunnel_id) ==
    [kv |-> [kv EXCEPT ![slug] = tunnel_id],
     ttl |-> [ttl EXCEPT ![slug] = SLUG_CACHE_TTL]]

\* The store executes the SET of cache_slug_resolution and the handler goes
\* on to look the tunnel up.
CacheSet(h, oversize) ==
    /\ handler[h].pc = "cache_set"
    /\ oversize => handler[h].route = "static"
    /\ LET w == cache_slug_resolution(slug_key, slug_ttl, handler[h].slug,
                                      handler[h].tunnel_id) IN
       /\ slug_key' = w.kv
       /\ slug_ttl' = w.ttl
    /\ Commit(AfterLookup(FwdState, h, handler[h].tunnel_id, oversize))
    /\ UNCHANGED <<fleetVars, sessVars>>

\* Slug keys the store holds.
Cached == {g \in Slugs : slug_key[g] # Nil}

\* Time passes for the store, less than any slug key has left.
SlugTickSeconds == 20
SlugTick ==
    /\ Cached # {}
    /\ \A g \in Cached : slug_ttl[g] > SlugTickSeconds
    /\ slug_ttl' = [g \in Slugs |->
                       IF g \in Cached THEN slug_ttl[g] - SlugTickSeconds ELSE slug_ttl[g]]
    /\ UNCHANGED <<fleetVars, sessVars, slug_key, handler, pending_requests, future,
                   entry_age, sent_before_pending, renderVars>>

\* What slug:{slug} has left to live elapses, no other slug key having less
\* left: the store deletes every slug key whose lifetime is over.
ExpireSlugKey(slug) ==
    /\ slug \in Cached
    /\ \A g \in Cached : slug_ttl[g] >= slug_ttl[slug]
    /\ slug_ttl' = [g \in Slugs |->
                       IF g \in Cached THEN slug_ttl[g] - slug_ttl[slug] ELSE slug_ttl[g]]
    /\ slug_key' = [g \in Slugs |->
                       IF g \in Cached /\ slug_ttl[g] = slug_ttl[slug] THEN Nil
                       ELSE slug_key[g]]
    /\ UNCHANGED <<fleetVars, sessVars, handler, pending_requests, future,
                   entry_age, sent_before_pending, renderVars>>

\* /local_tunnel: request.body() returns; the frame is serialised and, unless
\* it is larger than MAX_WS_PAYLOAD_BYTES, registered and handed to the socket.
BodyRead(h, oversize) ==
    /\ handler[h].pc = "body"
    /\ LET st == [FwdState EXCEPT !.handler[h].oversize = oversize] IN
       IF oversize THEN Commit(Finish(st, h, 413))
       ELSE Commit(CreateThenSend(st, h))
    /\ UNCHANGED <<fleetVars, sessVars, slug_key, slug_ttl>>

\* send_text returns: the handler awaits wait_for(future, REQUEST_TIMEOUT_SECONDS).
SendReturn(h) ==
    /\ handler[h].pc = "sending"
    /\ Commit([FwdState EXCEPT !.handler[h].pc = "waiting", !.handler[h].waited = 0])
    /\ UNCHANGED <<fleetVars, sessVars, slug_key, slug_ttl>>

\* send_text raises on a closed socket: pop the entry, 502.
SendFail(h) ==
    /\ handler[h].pc = "sending"
    /\ conn[handler[h].ws].sock # "open"
    /\ Commit(Finish(drop_pending(FwdState, handler[h].pod, h), h, 502))
    /\ UNCHANGED <<fleetVars, sessVars, slug_key, slug_ttl>>

\* The future has a result: wait_for returns it and the handler renders it.
HandlerReturn(h) ==
    /\ handler[h].pc = "waiting"
    /\ future[h].state = "done"
    /\ Commit(Finish([FwdState EXCEPT !.handler[h].reply = future[h].reply], h, 200))
    /\ UNCHANGED <<fleetVars, sessVars, slug_key, slug_ttl>>

\* An await of the future without a deadline: it never gives up.
AwaitWithoutDeadline(h) ==
    /\ handler[h].pc = "waiting"
    /\ FALSE
    /\ UNCHANGED vars

\* wait_for times out: it cancels the future and raises TimeoutError; the
\* handler pops the entry and answers 504.
Timeout(h) ==
    /\ handler[h].pc = "waiting"
    /\ future[h].state = "pending"
    /\ handler[h].waited = REQUEST_TIMEOUT_SECONDS
    /\ Commit(Finish(drop_pending([FwdState EXCEPT !.future[h].state = "cancelled"],
                                  handler[h].pod, h), h, 504))
    /\ UNCHANGED <<fleetVars, sessVars, slug_key, slug_ttl>>

\* The HTTP client goes away and the server cancels the handler's task:
\* CancelledError is raised at the await the handler is suspended in. Neither
\* "except Exception" nor "except asyncio.TimeoutError" catches it.
Cancel(h) ==
    /\ handler[h].pc \in {"resolve", "cache_set", "body", "sending", "waiting"}
    /\ Commit([FwdState EXCEPT
                  !.handler[h].pc = "cancelled",
                  !.handler[h].oversize = FALSE,
                  !.future[h].state = IF handler[h].pc = "waiting" /\ @ = "pending"
                                      THEN "cancelled" ELSE @])
    /\ UNCHANGED <<fleetVars, sessVars, slug_key, slug_ttl>>

\* ---------------------------------------------------------------------
\* websocket_tunnel: the receive loop
\* ---------------------------------------------------------------------
InReceiveLoop(c) == c.pc \in {"open", "pong_reply"}

\* Ping frames among the frames q.
PingsIn(q) == Cardinality({i \in DOMAIN q : q[i].type = "ping"})

\* The agent sends a text frame; of ping frames it sends MaxPings at most.
AgentSend(s, frame) ==
    /\ InReceiveLoop(conn[s])
    /\ conn[s].sock = "open"
    /\ Len(inbox[s]) < MaxInbox
    /\ frame.type = "ping" => conn[s].pings + PingsIn(inbox[s]) < MaxPings
    /\ inbox' = [inbox EXCEPT ![s] = Append(@, frame)]
    /\ UNCHANGED <<fleetVars, last_pong, heartbeat, fwdVars>>

\* TunnelManager.set_pong: stamps the Tunnel stored under tunnel_id, if any.
set_pong(lp, holder) ==
    IF holder # NoSession THEN [lp EXCEPT ![holder] = PongStamp] ELSE lp
MarkPonged(hb, holder) ==
    IF holder # NoSession THEN [hb EXCEPT ![holder].ponged = TRUE] ELSE hb

\* The handler is at `await websocket.receive_text()`: one coroutine runs the
\* loop, so it is there only when the dispatch of the frame before is over.
AwaitsFrameWhileReplying(c) == InReceiveLoop(c)
AwaitsFrame(c) == c.pc = "open"

\* receive_text returns the frames in the order they arrived.
receive_text(q) == [data |-> Head(q), rest |-> Tail(q)]

\* A loop without the size check.
payload_never_too_large(message) == FALSE

\* len(message.encode("utf-8")) > settings.MAX_WS_PAYLOAD_BYTES
payload_too_large(message) == message.bytes > MAX_WS_PAYLOAD_BYTES

\* What the loop does with a message before it looks at its type, in the
\* order of the code: an empty text is passed over; a text above the limit
\* closes the socket with 1009 and breaks out of the loop; a text json.loads
\* rejects is passed over; for JSON that is no dict, data.get raises
\* AttributeError, which the loop does not catch; a dict is dispatched.
Disposition(message) ==
    IF message.text = "empty" THEN "continue"
    ELSE IF payload_too_large(message) THEN "close_1009"
    ELSE IF message.text = "bad_json" THEN "continue"
    ELSE IF message.text = "non_object" THEN "raise"
    ELSE "dispatch"

\* receive_text returns the next frame and the loop deals with it: a frame
\* that is dispatched resolves its pending request if it is a response with
\* a request_id, stamps the Tunnel if it is a pong, and for a ping the loop
\* awaits the send of the pong reply before it reads again. A break and an
\* exception both take the handler to its finally clause; the frames behind
\* are never read.
Receive(s) ==
    /\ AwaitsFrame(conn[s])
    /\ conn[s].sock = "open"
    /\ Alive(s)
    /\ inbox[s] # <<>>
    /\ LET message == receive_text(inbox[s]).data
           data == [message EXCEPT !.via = s]
           d == Disposition(message)
           p == conn[s].pod
           holder == active_tunnels[p][conn[s].tunnel_id] IN
       /\ inbox' = [inbox EXCEPT ![s] = IF d \in {"close_1009", "raise"} THEN <<>>
                                        ELSE receive_text(@).rest]
       /\ conn' = CASE d = "close_1009" ->
                         [conn EXCEPT ![s].close_code = 1009, ![s].sock = "closed",
                                      ![s].pc = "cleanup"]
                    [] d = "raise" -> [conn EXCEPT ![s].pc = "cleanup"]
                    [] d = "dispatch" /\ data.type = "ping" ->
                         [conn EXCEPT ![s].pc = "pong_reply", ![s].pings = @ + 1]
                    [] OTHER -> conn
       /\ IF d = "dispatch" /\ data.type = "response" /\ data.request_id # NoRequest
          THEN Commit(resolve_request(FwdState, p, data.request_id, data))
          ELSE Commit(FwdState)
       /\ IF d = "dispatch" /\ data.type = "pong"
          THEN /\ last_pong' = set_pong(last_pong, holder)
               /\ heartbeat' = MarkPonged(heartbeat, holder)
          ELSE UNCHANGED <<last_pong, heartbeat>>
    /\ UNCHANGED <<mock_mode, pod_state, teardown_ids, tunnel_key, pod_tunnels,
                   active_tunnels, lock, race, slug_key, slug_ttl>>

\* A loop that a failed send of the pong reply takes to its finally clause.
PongReplyEndingOnFailure(s, ok) ==
    /\ conn[s].pc = "pong_reply"
    /\ Alive(s)
    /\ ok => conn[s].sock = "open"
    /\ conn' = [conn EXCEPT ![s].pc = IF ok THEN "open" ELSE "cleanup",
                            ![s].pong_sends = @ + 1,
                            ![s].pongs = IF ok THEN @ + 1 ELSE @]
    /\ UNCHANGED <<mock_mode, pod_state, teardown_ids, tunnel_key, pod_tunnels,
                   active_tunnels, lock, race, sessVars, fwdVars>>

\* send_text of the pong reply returns (ok), or raises and the exception is
\* swallowed: either way the loop goes back to receive_text.
PongReply(s, ok) ==
    /\ conn[s].pc = "pong_reply"
    /\ Alive(s)
    /\ ok => conn[s].sock = "open"
    /\ conn' = [conn EXCEPT ![s].pc = "open",
                            ![s].pong_sends = @ + 1,
                            ![s].pongs = IF ok THEN @ + 1 ELSE @]
    /\ UNCHANGED <<mock_mode, pod_state, teardown_ids, tunnel_key, pod_tunnels,
                   active_tunnels, lock, race, sessVars, fwdVars>>

\* ---------------------------------------------------------------------
\* The forwarder's clock
\* ---------------------------------------------------------------------
TickSeconds == 15
Min(a, b) == IF a < b THEN a ELSE b
Waiting == {h \in Handlers : handler[h].pc = "waiting" /\ future[h].state = "pending"}
Entries == UNION {pending_requests[p] : p \in Pods}
AgeCap == REQUEST_TIMEOUT_SECONDS + 1

\* Time passes, up to the next wait_for deadline and at most TickSeconds at
\* once; a deadline that is due fires before time passes again.
FwdStep ==
    LET left == {REQUEST_TIMEOUT_SECONDS - handler[h].waited : h \in Waiting} IN
    IF left = {} THEN TickSeconds
    ELSE Min(TickSeconds, CHOOSE d \in left : \A e \in left : d <= e)

FwdTick ==
    /\ FwdStep > 0
    /\ Waiting # {} \/ \E r \in Entries : entry_age[r] < AgeCap
    /\ handler' = [h \in Handlers |->
                      IF h \in Waiting
                      THEN [handler[h] EXCEPT !.waited = @ + FwdStep]
                      ELSE handler[h]]
    /\ entry_age' = [r \in RequestIds |->
                        IF r \in Entries THEN Min(entry_age[r] + FwdStep, AgeCap)
                        ELSE entry_age[r]]
    /\ UNCHANGED <<fleetVars, sessVars, slug_key, slug_ttl, pending_requests, future,
                   sent_before_pending, renderVars>>

\* ---------------------------------------------------------------------
\* _heartbeat_loop (app/api/ws_tunnel.py), in seconds
\* ---------------------------------------------------------------------
Running(s) == conn[s].hb = "running" /\ Alive(s)

\* asyncio.sleep(ping_interval) is over: send the ping. A send that raises
\* closes the socket and ends the task.
HbPing(s) ==
    /\ Running(s)
    /\ heartbeat[s].pc = "sleep_ping"
    /\ heartbeat[s].sleep = 0
    /\ IF conn[s].sock = "open"
       THEN /\ heartbeat' = [heartbeat EXCEPT
                                ![s].pc = "sleep_pong",
                                ![s].sleep = WS_PONG_TIMEOUT_SECONDS,
                                ![s].pings = IF @ < 2 THEN @ + 1 ELSE @,
                                ![s].ping_gap = IF heartbeat[s].pings > 0
                                                THEN heartbeat[s].since_ping ELSE @,
                                ![s].since_ping = 0]
            /\ UNCHANGED conn
       ELSE /\ conn' = [conn EXCEPT ![s].hb = "exited"]
            /\ UNCHANGED heartbeat
    /\ UNCHANGED <<mock_mode, pod_state, teardown_ids, tunnel_key, pod_tunnels,
                   active_tunnels, lock, race, last_pong, inbox, fwdVars>>

\* now - t.last_pong > ping_interval + pong_timeout. The clock counts whole
\* seconds: a pong stamped a whole number of seconds before the check is
\* older or younger than that by the fraction the check is late; the stamp of
\* creation is older than the task itself.
Overdue(lp, late) ==
    \/ lp.elapsed > WS_PING_INTERVAL_SECONDS + WS_PONG_TIMEOUT_SECONDS
    \/ /\ lp.elapsed = WS_PING_INTERVAL_SECONDS + WS_PONG_TIMEOUT_SECONDS
       /\ lp.at_creation \/ late

\* asyncio.sleep(pong_timeout) is over: look the Tunnel up by tunnel_id and
\* compare its last_pong; return if there is none, close and return if the
\* pong is overdue, else sleep again.
HbCheck(s, late) ==
    /\ Running(s)
    /\ heartbeat[s].pc = "sleep_pong"
    /\ heartbeat[s].sleep = 0
    /\ LET t == active_tunnels[conn[s].pod][conn[s].tunnel_id] IN
       IF t = NoSession
       THEN /\ conn' = [conn EXCEPT ![s].hb = "exited"]
            /\ UNCHANGED heartbeat
       ELSE IF Overdue(last_pong[t], late)
       THEN /\ conn' = [conn EXCEPT ![s].hb = "exited", ![s].sock = "closed"]
            /\ UNCHANGED heartbeat
       ELSE /\ heartbeat' = [heartbeat EXCEPT ![s].pc = "sleep_ping",
                                              ![s].sleep = WS_PING_INTERVAL_SECONDS]
            /\ UNCHANGED conn
    /\ UNCHANGED <<mock_mode, pod_state, teardown_ids, tunnel_key, pod_tunnels,
                   active_tunnels, lock, race, last_pong, inbox, fwdVars>>

\* A second passes. The steps of the event loop take no time: a sleep that is
\* over, a frame that has arrived and the cleanup of a closed session run
\* before the clock moves.
Urgent(s) ==
    \/ Running(s) /\ heartbeat[s].sleep = 0
    \/ conn[s].pc = "open" /\ (inbox[s] # <<>> \/ conn[s].sock = "closed")
    \/ conn[s].pc \in {"pong_reply", "cleanup", "remove_store"}

HbTick ==
    /\ \E s \in Sessions : Running(s) /\ InReceiveLoop(conn[s])
    /\ \A s \in Sessions : ~Urgent(s)
    /\ heartbeat' = [s \in Sessions |->
                        IF Running(s)
                        THEN [heartbeat[s] EXCEPT
                                 !.sleep = @ - 1,
                                 !.since_ping = IF heartbeat[s].pings > 0 THEN @ + 1 ELSE @]
                        ELSE heartbeat[s]]
    /\ last_pong' = [s \in Sessions |->
                        IF InReceiveLoop(conn[s])
                        THEN [last_pong[s] EXCEPT !.elapsed = @ + 1]
                        ELSE last_pong[s]]
    /\ UNCHANGED <<fleetVars, inbox, fwdVars>>

\* ---------------------------------------------------------------------
\* Rendering the agent's reply (app/api/http_tunnel.py, both routes)
\* ---------------------------------------------------------------------
\* A header name is the sequence of its characters.
UpperCase == <<"A", "B", "C", "D", "E", "F", "G", "H", "I", "J", "K", "L",
             "M", "N", "O", "P", "Q", "R", "S", "T", "U", "V", "W", "X",
             "Y", "Z">>
LowerCase == <<"a", "b", "c", "d", "e", "f", "g", "h", "i", "j", "k", "l",
             "m", "n", "o", "p", "q", "r", "s", "t", "u", "v", "w", "x",
             "y", "z">>

\* str.lower() on the characters of header names: an upper-case letter
\* becomes its lower-case letter, every other character stays.
LowerChar(c) ==
    IF \E i \in DOMAIN UpperCase : UpperCase[i] = c
    THEN LowerCase[CHOOSE i \in DOMAIN UpperCase : UpperCase[i] = c]
    ELSE c
same_case(k) == k
lower(k) == [i \in DOMAIN k |-> LowerChar(k[i])]

content_length == <<"c", "o", "n", "t", "e", "n", "t", "-", "l", "e", "n", "g",
                  "t", "h">>
transfer_encoding == <<"t", "r", "a", "n", "s", "f", "e", "r", "-", "e", "n", "c",
                     "o", "d", "i", "n", "g">>

\* Names and values an agent's reply may carry.
HeaderNames == {
    <<"c", "o", "n", "t", "e", "n", "t", "-", "l", "e", "n", "g",
      "t", "h">>,
    <<"C", "o", "n", "t", "e", "n", "t", "-", "L", "e", "n", "g",
      "t", "h">>,
    <<"C", "O", "N", "T", "E", "N", "T", "-", "L", "E", "N", "G",
      "T", "H">>,
    <<"t", "r", "a", "n", "s", "f", "e", "r", "-", "e", "n", "c",
      "o", "d", "i", "n", "g">>,
    <<"T", "r", "a", "n", "s", "f", "e", "r", "-", "E", "n", "c",
      "o", "d", "i", "n", "g">>,
    <<"C", "o", "n", "t", "e", "n", "t", "-", "T", "y", "p", "e">>,
    <<"X", "-", "C", "o", "n", "t", "e", "n", "t", "-", "L", "e",
      "n", "g", "t", "h">>}
HeaderValues == {"0", "chunked"}
HeaderDicts == UNION {[S -> HeaderValues] : S \in SUBSET HeaderNames}

\* {k: v for k, v in response_headers.items()
\*         if k.lower() not in ['content-length', 'transfer-encoding']}
response_headers(headers) ==
    LET kept == {k \in DOMAIN headers : lower(k) \notin {content_length, transfer_encoding}} IN
    [k \in kept |-> headers[k]]

\* A reply with any dict of headers is about to be rendered.
RenderInit ==
    /\ FleetInit /\ SessInit
    /\ response_data \in [headers : HeaderDicts]
    /\ response = NoResponse
    /\ slug_key = [g \in Slugs |-> Nil]
    /\ slug_ttl = [g \in Slugs |-> 0]
    /\ handler = [h \in Handlers |-> NewHandler]
    /\ pending_requests = [p \in Pods |-> {}]
    /\ future = [r \in RequestIds |-> NoFuture]
    /\ entry_age = [r \in RequestIds |-> 0]
    /\ sent_before_pending = {}

\* return Response(..., headers=response_headers)
Render ==
    /\ ~response.rendered
    /\ response' = [rendered |-> TRUE,
                    headers |-> response_headers(response_data.headers)]
    /\ UNCHANGED <<fleetVars, sessVars, slug_key, slug_ttl, handler, pending_requests, future,
                   entry_age, sent_before_pending, response_data>>

RenderNext == Render
SpecRender == RenderInit /\ [][RenderNext]_vars

\* ---------------------------------------------------------------------
\* The fleet
\* ---------------------------------------------------------------------
FleetNext ==
    \/ \E s \in Sessions, p \in Pods, t \in Tunnels, token \in Tokens,
          answer \in CPAnswers :
           Connect(s, p, t, token, answer)
    \/ \E s \in Sessions : RegisterAcquire(s)
    \/ \E s \in Sessions : RegisterSetNX(s)
    \/ \E s \in Sessions : RegisterSAdd(s)
    \/ \E s \in Sessions : RegisterGet(s)
    \/ \E s \in Sessions, applied \in BOOLEAN : RegisterStoreError(s, applied)
    \/ \E s \in Sessions : AgentDisconnect(s)
    \/ \E s \in Sessions : HeartbeatClose(s)
    \/ \E s \in Sessions : LoopDisconnect(s)
    \/ \E s \in Sessions : RemoveLocal(s)
    \/ \E s \in Sessions : RemoveStore(s)
    \/ \E t \in Tunnels : ExpireTunnelKey(t)
    \/ \E p \in Pods : TeardownRead(p)
    \/ \E p \in Pods : TeardownExec(p)

Init == FleetInit /\ SessInit /\ FwdIdle
Next == FleetNext
Spec == Init /\ [][Next]_vars

\* ---------------------------------------------------------------------
\* One pod forwarding: the first pod has admitted the first agent, and HTTP
\* requests arrive at either pod.
\* ---------------------------------------------------------------------
OpenConn(t) == [NewConn EXCEPT !.pc = "open", !.pod = FirstPod, !.tunnel_id = t,
                               !.accepted = TRUE, !.sock = "open", !.hb = "running"]

AdmittedInit ==
    /\ mock_mode \in BOOLEAN
    /\ pod_state = [p \in Pods |-> "up"]
    /\ teardown_ids = [p \in Pods |-> {}]
    /\ tunnel_key = [t \in Tunnels |-> IF t = FirstTunnel THEN FirstPod ELSE Nil]
    /\ pod_tunnels = [p \in Pods |-> IF p = FirstPod THEN {FirstTunnel} ELSE {}]
    /\ active_tunnels = [p \in Pods |-> [t \in Tunnels |->
                            IF p = FirstPod /\ t = FirstTunnel THEN 1 ELSE NoSession]]
    /\ lock = [p \in Pods |-> NoSession]
    /\ conn = [s \in Sessions |-> IF s = 1 THEN OpenConn(FirstTunnel) ELSE NewConn]
    /\ race = [t \in Tunnels |->
                  IF t = FirstTunnel THEN [won |-> {1}, lost |-> {}] ELSE NoRace]
    /\ last_pong = [s \in Sessions |-> CreationStamp]
    /\ heartbeat = [s \in Sessions |-> IF s = 1 THEN StartHeartbeat ELSE NoHeartbeat]
    /\ inbox = [s \in Sessions |-> <<>>]
    /\ FwdIdle

FwdInit == AdmittedInit

FwdNext ==
    \/ \E h \in Handlers, p \in Pods, route \in Routes, slug \in Slugs,
          cache_read \in CacheReads, oversize \in BOOLEAN :
           HttpRequest(h, p, route, slug, cache_read, oversize)
    \/ \E h \in Handlers, answer \in CPAnswers : ResolveReturn(h, answer)
    \/ \E h \in Handlers, oversize \in BOOLEAN : CacheSet(h, oversize)
    \/ \E slug \in Slugs : ExpireSlugKey(slug)
    \/ \E h \in Handlers, oversize \in BOOLEAN : BodyRead(h, oversize)
    \/ \E h \in Handlers : SendReturn(h)
    \/ \E h \in Handlers : SendFail(h)
    \/ \E h \in Handlers : HandlerReturn(h)
    \/ \E h \in Handlers : Timeout(h)
    \/ \E h \in Handlers : Cancel(h)
    \/ \E s \in Sessions, r \in RequestIds : AgentSend(s, ResponseFrame(r))
    \/ \E s \in Sessions : Receive(s)
    \/ \E s \in Sessions : AgentDisconnect(s)
    \/ \E s \in Sessions : RemoveLocal(s)
    \/ \E s \in Sessions : RemoveStore(s)
    \/ FwdTick

SpecFwd == FwdInit /\ [][FwdNext]_vars

\* ---------------------------------------------------------------------
\* One session and its heartbeat: the first pod has admitted the first
\* agent and started its heartbeat task.
\* ---------------------------------------------------------------------
HbInit == AdmittedInit

HbNext ==
    \/ \E s \in Sessions : HbPing(s)
    \/ \E s \in Sessions, late \in BOOLEAN : HbCheck(s, late)
    \/ \E s \in Sessions, frame \in {PongFrame, PingFrame} : AgentSend(s, frame)
    \/ \E s \in Sessions : Receive(s)
    \/ \E s \in Sessions, ok \in BOOLEAN : PongReply(s, ok)
    \/ \E s \in Sessions : AgentDisconnect(s)
    \/ \E s \in Sessions : LoopDisconnect(s)
    \/ \E s \in Sessions : RemoveLocal(s)
    \/ \E s \in Sessions : RemoveStore(s)
    \/ HbTick

SpecHb == HbInit /\ [][HbNext]_vars


\* ---------------------------------------------------------------------
\* Requests for the first tunnel on the pod that holds it, with time that
\* does pass: the clock, a wait_for deadline that is due and the return of
\* a handler whose future has a result are not postponed for ever.
\* ---------------------------------------------------------------------
WaitInit == AdmittedInit /\ mock_mode

WaitNext ==
    \/ \E h \in Handlers, route \in Routes :
           HttpRequest(h, FirstPod, route, "my-slug", "ok", FALSE)
    \/ \E h \in Handlers : ResolveReturn(h, "200_active")
    \/ \E h \in Handlers : CacheSet(h, FALSE)
    \/ \E h \in Handlers : BodyRead(h, FALSE)
    \/ \E h \in Handlers : SendReturn(h)
    \/ \E h \in Handlers : SendFail(h)
    \/ \E h \in Handlers : HandlerReturn(h)
    \/ \E h \in Handlers : Timeout(h)
    \/ \E h \in Handlers : Cancel(h)
    \/ \E s \in Sessions, r \in RequestIds : AgentSend(s, ResponseFrame(r))
    \/ \E s \in Sessions : Receive(s)
    \/ \E s \in Sessions : AgentDisconnect(s)
    \/ \E s \in Sessions : RemoveLocal(s)
    \/ \E s \in Sessions : RemoveStore(s)
    \/ FwdTick

SpecWait ==
    /\ WaitInit /\ [][WaitNext]_vars
    /\ WF_vars(FwdTick)
    /\ \A h \in Handlers : WF_vars(Timeout(h)) /\ WF_vars(HandlerReturn(h))

\* ---------------------------------------------------------------------
\* The slug cache: requests arrive and are followed up to the lookup of
\* their tunnel, while the store's clock runs.
\* ---------------------------------------------------------------------
SlugInit == AdmittedInit

SlugNext ==
    \/ \E h \in Handlers, p \in Pods, route \in Routes, slug \in Slugs,
          cache_read \in CacheReads :
           HttpRequest(h, p, route, slug, cache_read, FALSE)
    \/ \E h \in Handlers, answer \in CPAnswers : ResolveReturn(h, answer)
    \/ \E h \in Handlers : CacheSet(h, FALSE)
    \/ SlugTick
    \/ \E slug \in Slugs : ExpireSlugKey(slug)

SpecSlug == SlugInit /\ [][SlugNext]_vars

\* ---------------------------------------------------------------------
\* The fleet while no ownership key runs out of its lifetime: every
\* session is shorter than TUNNEL_REGISTRY_TTL.
\* ---------------------------------------------------------------------
UnexpiredNext ==
    \/ \E s \in Sessions, p \in Pods, t \in Tunnels, token \in Tokens,
          answer \in CPAnswers :
           Connect(s, p, t, token, answer)
    \/ \E s \in Sessions : RegisterAcquire(s)
    \/ \E s \in Sessions : RegisterSetNX(s)
    \/ \E s \in Sessions : RegisterSAdd(s)
    \/ \E s \in Sessions : RegisterGet(s)
    \/ \E s \in Sessions, applied \in BOOLEAN : RegisterStoreError(s, applied)
    \/ \E s \in Sessions : AgentDisconnect(s)
    \/ \E s \in Sessions : HeartbeatClose(s)
    \/ \E s \in Sessions : LoopDisconnect(s)
    \/ \E s \in Sessions : RemoveLocal(s)
    \/ \E s \in Sessions : RemoveStore(s)
    \/ \E p \in Pods : TeardownRead(p)
    \/ \E p \in Pods : TeardownExec(p)

SpecUnexpired == Init /\ [][UnexpiredNext]_vars

\* ---------------------------------------------------------------------
\* The receive loop: the first pod has admitted the first agent, a request
\* is forwarded to it, and the agent sends text frames of every kind.
\* ---------------------------------------------------------------------
LoopFrames ==
    {EmptyFrame, BadJsonFrame, NonObjectFrame, UnknownTypeFrame, PingFrame, PongFrame,
     ResponseFrame(NoRequest), ResponseFrame(1), LimitFrame(1), OversizeFrame(1)}

LoopInit == AdmittedInit /\ mock_mode

LoopNext ==
    \/ HttpRequest(1, FirstPod, "local_tunnel", "my-slug", "ok", FALSE)
    \/ \E h \in Handlers : ResolveReturn(h, "200_active")
    \/ \E h \in Handlers : CacheSet(h, FALSE)
    \/ \E h \in Handlers : BodyRead(h, FALSE)
    \/ \E h \in Handlers : SendReturn(h)
    \/ \E h \in Handlers : HandlerReturn(h)
    \/ \E s \in Sessions, frame \in LoopFrames : AgentSend(s, frame)
    \/ \E s \in Sessions : Receive(s)
    \/ \E s \in Sessions, ok \in BOOLEAN : PongReply(s, ok)
    \/ \E s \in Sessions : AgentDisconnect(s)
    \/ \E s \in Sessions : HeartbeatClose(s)
    \/ \E s \in Sessions : LoopDisconnect(s)
    \/ \E s \in Sessions : RemoveLocal(s)
    \/ \E s \in Sessions : RemoveStore(s)

SpecLoop == LoopInit /\ [][LoopNext]_vars

\* ---------------------------------------------------------------------
\* The end of sessions on one pod, with a store that answers and an event
\* loop that runs what is ready: a command of a register or of a remove that
\* was issued is executed, a handler waiting for the manager's lock gets it
\* once it stays free, and a closed socket is reported to its receive loop.
\* ---------------------------------------------------------------------
EndFrames == {NonObjectFrame, OversizeFrame(1)}

EndInit == Init /\ ~mock_mode

EndNext ==
    \/ \E s \in Sessions, t \in Tunnels :
           Connect(s, FirstPod, t, "valid_token", "200_active")
    \/ \E s \in Sessions : RegisterAcquire(s)
    \/ \E s \in Sessions : RegisterSetNX(s)
    \/ \E s \in Sessions : RegisterSAdd(s)
    \/ \E s \in Sessions : RegisterGet(s)
    \/ \E s \in Sessions, frame \in EndFrames : AgentSend(s, frame)
    \/ \E s \in Sessions : Receive(s)
    \/ \E s \in Sessions : AgentDisconnect(s)
    \/ \E s \in Sessions : HeartbeatClose(s)
    \/ \E s \in Sessions : LoopDisconnect(s)
    \/ \E s \in Sessions : RemoveLocal(s)
    \/ \E s \in Sessions : RemoveStore(s)
    \/ \E t \in Tunnels : ExpireTunnelKey(t)

SpecEnd ==
    /\ EndInit /\ [][EndNext]_vars
    /\ \A s \in Sessions :
          /\ WF_vars(RegisterSetNX(s)) /\ WF_vars(RegisterSAdd(s)) /\ WF_vars(RegisterGet(s))
          /\ WF_vars(LoopDisconnect(s))
          /\ WF_vars(RemoveLocal(s)) /\ WF_vars(RemoveStore(s))

\* ---------------------------------------------------------------------
\* Two tunnels on one pod: the first pod has admitted an agent for each
\* tunnel_id, requests are forwarded to the first tunnel, and both agents
\* send response frames.
\* ---------------------------------------------------------------------
SecondTunnel == "tunnel_abc456"

CrossInit ==
    /\ mock_mode = TRUE
    /\ pod_state = [p \in Pods |-> "up"]
    /\ teardown_ids = [p \in Pods |-> {}]
    /\ tunnel_key = [t \in Tunnels |-> FirstPod]
    /\ pod_tunnels = [p \in Pods |-> IF p = FirstPod THEN Tunnels ELSE {}]
    /\ active_tunnels = [p \in Pods |-> [t \in Tunnels |->
                            IF p # FirstPod THEN NoSession
                            ELSE IF t = FirstTunnel THEN 1 ELSE 2]]
    /\ lock = [p \in Pods |-> NoSession]
    /\ conn = [s \in Sessions |-> OpenConn(IF s = 1 THEN FirstTunnel ELSE SecondTunnel)]
    /\ race = [t \in Tunnels |->
                  [won |-> {IF t = FirstTunnel THEN 1 ELSE 2}, lost |-> {}]]
    /\ last_pong = [s \in Sessions |-> CreationStamp]
    /\ heartbeat = [s \in Sessions |-> StartHeartbeat]
    /\ inbox = [s \in Sessions |-> <<>>]
    /\ FwdIdle

CrossNext ==
    \/ \E h \in Handlers, route \in Routes :
           HttpRequest(h, FirstPod, route, "my-slug", "ok", FALSE)
    \/ \E h \in Handlers : ResolveReturn(h, "200_active")
    \/ \E h \in Handlers : CacheSet(h, FALSE)
    \/ \E h \in Handlers : BodyRead(h, FALSE)
    \/ \E h \in Handlers : SendReturn(h)
    \/ \E h \in Handlers : HandlerReturn(h)
    \/ \E s \in Sessions, r \in RequestIds : AgentSend(s, ResponseFrame(r))
    \/ \E s \in Sessions : Receive(s)

SpecCross == CrossInit /\ [][CrossNext]_vars
\* =====================================================================
\* Claims about the fleet (checked under Spec)
\* =====================================================================
HoldsEntry(s) == \E p \in Pods, t \in Tunnels : active_tunnels[p][t] = s

\* C1: of the registers that ran their SET NX for one tunnel_id while the
\* ownership record was not deleted in between, the store answering each of
\* their commands, exactly one succeeds (its session goes on to hold the
\* tunnel) and every other one is refused as already owned: it gets no
\* entry and its socket is closed with 1008.
C1_ExactlyOneRegisterSucceeds ==
    \A t \in Tunnels :
        /\ Cardinality(race[t].won) <= 1
        /\ (\A s \in race[t].won \cup race[t].lost : ~conn[s].store_error)
              => /\ race[t].lost # {} => Cardinality(race[t].won) = 1
                 /\ \A s \in race[t].won : conn[s].pc \notin {"get", "end"}
                 /\ \A s \in race[t].lost :
                       /\ conn[s].pc \in {"get", "end", "killed"}
                       /\ ~HoldsEntry(s)
                       /\ conn[s].pc = "end" => conn[s].close_code = 1008

\* Two pods are inside register for the same tunnel_id at the same time: one
\* between its SET NX and its SADD, the other between its SET NX and its GET.
C1_Witness ==
    \E t \in Tunnels, a \in Sessions, b \in Sessions :
        /\ a \in race[t].won /\ b \in race[t].lost
        /\ conn[a].pod # conn[b].pod
        /\ conn[a].pc = "sadd" /\ conn[b].pc = "get"

\* C2: in every reachable state at most one pod holds an entry for a
\* tunnel_id in its active_tunnels.
C2_AtMostOneOwner ==
    \A t \in Tunnels :
        Cardinality({p \in Pods : active_tunnels[p][t] # NoSession}) <= 1

\* A session is healthy: admitted, receive loop running, socket open,
\* heartbeat running.
Healthy(s) ==
    conn[s].pc = "open" /\ conn[s].sock = "open" /\ conn[s].hb = "running"

\* C3: every entry of a pod's active_tunnels whose session is healthy has
\* tunnel:{tunnel_id} = that pod in the store.
C3_HealthyEntryHasOwnershipRecord ==
    \A p \in Pods, t \in Tunnels :
        (active_tunnels[p][t] # NoSession /\ Healthy(active_tunnels[p][t]))
            => tunnel_key[t] = p

\* C10: a session whose token the Control Plane does not accept (the call did
\* not end in a transient error) is closed with 1008 and gets no entry, no
\* ownership record and no heartbeat.
C10_WrongTokenNeverAdmitted ==
    \A s \in Sessions :
        (conn[s].token = "wrong_token" /\ conn[s].answer # "transient")
            => /\ conn[s].pc = "end"
               /\ conn[s].close_code = 1008
               /\ conn[s].hb = "none"
               /\ ~HoldsEntry(s)
               /\ \A t \in Tunnels : s \notin race[t].won

\* =====================================================================
\* Claims about admission (checked under Spec)
\* =====================================================================
\* No register was run for session s: it issued no SET NX, holds no entry of
\* a tunnel table and has no heartbeat task.
NeverRegistered(s) ==
    /\ ~HoldsEntry(s)
    /\ \A t \in Tunnels : s \notin race[t].won \cup race[t].lost
    /\ conn[s].hb = "none"

C12_InactiveTunnelNeverAdmitted ==
    \A s \in Sessions :
        (conn[s].token = "valid_token"
            /\ conn[s].answer \in {"200_expired", "200_revoked"})
            => /\ conn[s].pc = "end"
               /\ conn[s].close_code = 1008
               /\ NeverRegistered(s)

\* C13: a validation call that ended in a transient error closes the
\* connection with 1011 (not 1008) and nothing is registered.
C13_TransientValidationCloses1011 ==
    \A s \in Sessions :
        (conn[s].asked /\ conn[s].answer = "transient")
            => /\ conn[s].pc = "end"
               /\ conn[s].close_code = 1011
               /\ NeverRegistered(s)

\* The call failed for an agent that showed the right token.
C13_Witness ==
    \E s \in Sessions :
        /\ conn[s].asked /\ conn[s].answer = "transient"
        /\ conn[s].token = "valid_token"
        /\ conn[s].close_code = 1011

\* C15: every close with an admission code follows the accept of the
\* handshake.
C15_AcceptBeforeClose ==
    \A s \in Sessions :
        conn[s].close_code # 0 => conn[s].accepted /\ ~conn[s].refused

\* A validated agent was turned away as a duplicate: its handshake was
\* accepted before register ran, and the close with 1008 came after it.
C15_Witness ==
    \E b \in Sessions :
        /\ conn[b].pc = "end" /\ conn[b].close_code = 1008
        /\ conn[b].accepted /\ ~conn[b].refused
        /\ \E t \in Tunnels : b \in race[t].lost

\* Session s is being refused as a duplicate: its SET NX is about to meet an
\* ownership record, or has met one.
Duplicate(s) ==
    \/ conn[s].pc = "setnx" /\ tunnel_key[conn[s].tunnel_id] # Nil
    \/ conn[s].pc = "get"

\* C14: the steps that refuse a duplicate, the store answering, end it with
\* 1008 and change neither a tunnel table, nor the store, nor a heartbeat,
\* nor another session.
C14_DuplicateLeavesHolderUndisturbed ==
    [][\A s \in Sessions :
          (Duplicate(s) /\ conn'[s] # conn[s] /\ conn'[s].pc # "killed"
                /\ ~conn'[s].store_error)
              => /\ conn'[s].pc \in {"get", "end"}
                 /\ conn'[s].pc = "end" => conn'[s].close_code = 1008
                 /\ active_tunnels' = active_tunnels
                 /\ tunnel_key' = tunnel_key
                 /\ pod_tunnels' = pod_tunnels
                 /\ heartbeat' = heartbeat
                 /\ \A o \in Sessions \ {s} : conn'[o] = conn[o]]_vars

\* The duplicate has been closed with 1008 and the session that holds the
\* tunnel is healthy, in its pod's table and named by the ownership record.
C14_Witness ==
    \E t \in Tunnels, a \in Sessions, b \in Sessions :
        /\ a \in race[t].won /\ b \in race[t].lost
        /\ conn[b].pc = "end" /\ conn[b].close_code = 1008
        /\ Healthy(a)
        /\ active_tunnels[conn[a].pod][t] = a
        /\ tunnel_key[t] = conn[a].pod

C16_NoHeartbeatOutlivesRemove ==
    \A s \in Sessions : conn[s].pc = "end" => conn[s].hb # "running"

\* C18: once a pod's teardown has completed, no tunnel:{id} key of the store
\* names that pod and its pod:{pod}:tunnels set does not exist.
C18_TeardownLeavesNoOwnership ==
    \A p \in Pods :
        pod_state[p] = "down"
            => /\ \A t \in Tunnels : tunnel_key[t] # p
               /\ pod_tunnels[p] = {}

\* =====================================================================
\* Claims about the receive loop (checked under SpecHb)
\* =====================================================================
\* C17: whenever the receive loop of a session takes a frame, the dispatch
\* of the frame before it is over (the loop is not awaiting the send of a
\* pong reply), and the frame taken is the oldest one not yet dispatched.
C17_DispatchOneFrameAtATime ==
    [][\A s \in Sessions :
          (InReceiveLoop(conn[s]') /\ Len(inbox[s]') < Len(inbox[s]))
              => /\ conn[s].pc = "open"
                 /\ inbox[s]' = Tail(inbox[s])]_vars

\* A ping was taken and two further frames of different types have arrived
\* while the loop awaits the send of the pong reply.
C17_Witness ==
    \E s \in Sessions :
        /\ conn[s].pc = "pong_reply"
        /\ Len(inbox[s]) = 2
        /\ inbox[s][1] # inbox[s][2]

\* =====================================================================
\* Claims about forwarding (checked under SpecFwd)
\* =====================================================================
\* C4: the future of the handler that sent request_id r completes only with
\* a response frame whose request_id is r, or ends in timeout; what the
\* handler renders is the reply to its own request.
C4_FutureCompletesOnlyWithOwnReply ==
    \A h \in Handlers :
        /\ future[h].state = "done" => future[h].reply = h
        /\ (handler[h].pc = "done" /\ handler[h].status = 200) => handler[h].reply = h
        /\ (handler[h].pc = "done" /\ handler[h].status = 504)
               => future[h].state = "cancelled" /\ handler[h].reply = NoRequest

\* Two requests are outstanding and the agent answers the later one first.
C4_Witness ==
    \E g \in Handlers, h \in Handlers :
        /\ g < h
        /\ handler[g].pc = "waiting" /\ future[g].state = "pending"
        /\ g \in pending_requests[handler[g].pod]
        /\ handler[h].pc = "done" /\ handler[h].status = 200 /\ handler[h].reply = h

\* C5: once a handler has returned, whatever its answer, pending_requests
\* does not hold its request_id.
C5_ReturnedHandlerLeavesNoEntry ==
    \A h \in Handlers :
        handler[h].pc = "done" => \A p \in Pods : h \notin pending_requests[p]

\* The tunnel was torn down while the request was outstanding, and the handler
\* has answered 504.
C5_Witness ==
    \E h \in Handlers :
        /\ handler[h].pc = "done" /\ handler[h].status = 504
        /\ handler[h].ws # NoSession
        /\ conn[handler[h].ws].pc = "end"

\* C6: an entry of pending_requests is never older than REQUEST_TIMEOUT,
\* also after the handler that made it was cancelled.
C6_PendingEntryBoundedByTimeout ==
    \A r \in Entries : entry_age[r] <= REQUEST_TIMEOUT_SECONDS

\* C7: on both routes no frame is handed to the socket before its entry is
\* in pending_requests: while the send is in progress the entry is there,
\* unless the agent's reply has already consumed it.
C7_PendingEntryBeforeSend ==
    /\ sent_before_pending = {}
    /\ \A h \in Handlers :
          handler[h].pc = "sending"
              => \/ h \in pending_requests[handler[h].pod]
                 \/ future[h].state = "done" /\ future[h].reply = h

\* On each route a reply arrived while the send had not returned yet, and
\* found its entry.
C7_Witness ==
    \E g \in Handlers, h \in Handlers :
        /\ handler[g].route = "local_tunnel" /\ handler[h].route = "static"
        /\ handler[g].pc = "sending" /\ future[g].state = "done" /\ future[g].reply = g
        /\ handler[h].pc = "sending" /\ future[h].state = "done" /\ future[h].reply = h

\* =====================================================================
\* Claims about the heartbeat (checked under SpecHb)
\* =====================================================================
\* C8: a session whose last pong (or, without any pong, whose admission) is
\* more than PING_INTERVAL + PONG_TIMEOUT + PING_INTERVAL seconds old has
\* its socket closed and is registered neither locally nor in the store.
C8_SilentAgentClosedWithinOneInterval ==
    \A s \in Sessions :
        (conn[s].hb # "none" /\ last_pong[s].elapsed >
             WS_PING_INTERVAL_SECONDS + WS_PONG_TIMEOUT_SECONDS + WS_PING_INTERVAL_SECONDS)
            => /\ conn[s].sock = "closed"
               /\ ~HoldsEntry(s)
               /\ tunnel_key[conn[s].tunnel_id] # conn[s].pod

\* C9: two consecutive pings on one socket are WS_PING_INTERVAL seconds apart.
C9_PingEveryInterval ==
    \A s \in Sessions :
        heartbeat[s].pings >= 2 => heartbeat[s].ping_gap = WS_PING_INTERVAL_SECONDS

\* =====================================================================
\* Claims about slug resolution (checked under SpecFwd)
\* =====================================================================
\* C19: a handler whose Control Plane resolve call ended in a transient
\* error answers 502.
C19_TransientResolveAnswers502 ==
    \A h \in Handlers :
        (handler[h].pc = "done" /\ handler[h].answer = "transient")
            => handler[h].status = 502

\* C20: a handler whose read of the slug cache failed goes on to Control
\* Plane resolution: the failed read does not end the request.
C20_CacheErrorFallsBackToControlPlane ==
    \A h \in Handlers :
        handler[h].cache_failed => ~(handler[h].pc = "done" /\ handler[h].status = 500)

\* =====================================================================
\* Claims about routing errors (checked under SpecFwd)
\* =====================================================================
\* C22: when resolve_slug returns for a slug that was not cached, an answer
\* of not found ends the request with 404 and a record whose status is not
\* active ends it with 410; the step that ends it with either writes no
\* slug key, creates no pending entry and hands no frame to a socket.
C22_InactiveSlugEndsUnrouted ==
    [][\A h \in Handlers :
          (handler[h].pc = "resolve" /\ handler'[h].pc \notin {"resolve", "cancelled"})
              => /\ handler'[h].answer = "404"
                      => handler'[h].pc = "done" /\ handler'[h].status = 404
                 /\ handler'[h].answer \in {"200_expired", "200_revoked"}
                      => handler'[h].pc = "done" /\ handler'[h].status = 410
                 /\ handler'[h].pc = "done"
                      => /\ handler'[h].status \in {404, 410}
                         /\ slug_key' = slug_key
                         /\ pending_requests' = pending_requests
                         /\ future' = future
                         /\ \A g \in Handlers :
                               handler'[g].pc = "sending" => handler[g].pc = "sending"]_vars

\* The Control Plane said the tunnel of the slug is revoked: the request got
\* 410 and the slug is not cached.
C22_Witness ==
    \E h \in Handlers :
        /\ handler[h].pc = "done" /\ handler[h].status = 410
        /\ handler[h].answer = "200_revoked"
        /\ slug_key[handler[h].slug] = Nil

\* C23: when the handler looks the tunnel_id up (after a cache hit or after
\* caching the resolution) and its pod's active_tunnels has no entry for it,
\* the request ends at once with 503: no pending entry is created, no frame
\* is handed to a socket of any pod.
C23_NotHostedFailsFast ==
    [][\A h \in Handlers :
          LET looked ==
                  \/ /\ handler[h].pc = "idle"
                     /\ handler'[h].pc \notin {"idle", "resolve"}
                     /\ ~handler'[h].cache_failed
                  \/ /\ handler[h].pc = "cache_set"
                     /\ handler'[h].pc \notin {"cache_set", "cancelled"}
              tid == IF handler[h].pc = "cache_set" THEN handler[h].tunnel_id
                     ELSE slug_key[handler'[h].slug] IN
          (looked /\ active_tunnels[handler'[h].pod][tid] = NoSession)
              => /\ handler'[h].pc = "done" /\ handler'[h].status = 503
                 /\ pending_requests' = pending_requests
                 /\ future' = future
                 /\ \A g \in Handlers :
                       handler'[g].pc = "sending" => handler[g].pc = "sending"]_vars

\* A request for the tunnel arrived on a pod that does not hold it while the
\* store names the pod that does, and got 503.
C23_Witness ==
    \E h \in Handlers :
        /\ handler[h].pc = "done" /\ handler[h].status = 503
        /\ handler[h].pod # FirstPod
        /\ tunnel_key[FirstTunnel] = FirstPod
        /\ active_tunnels[FirstPod][FirstTunnel] # NoSession

\* C24: no frame larger than MAX_WS_PAYLOAD_BYTES is handed to a socket or
\* registered in pending_requests: a request whose frame is larger ends
\* with 413.
C24_NoOversizeFrameSent ==
    \A h \in Handlers :
        handler[h].oversize
            => /\ handler[h].pc = "done" /\ handler[h].status = 413
               /\ \A p \in Pods : h \notin pending_requests[p]

\* C25: a /static handler is only ever where a /local_tunnel handler with the
\* same request can be: it passes the size check before its frame is
\* registered and sent, so it never awaits the send of, or the reply to, a
\* frame larger than MAX_WS_PAYLOAD_BYTES.
C25_StaticPassesSizeCheck ==
    \A h \in Handlers :
        (handler[h].route = "static" /\ handler[h].pc \in {"sending", "waiting"})
            => ~handler[h].oversize

\* =====================================================================
\* Claims about the wait for the agent's reply (checked under SpecWait)
\* =====================================================================
\* C26: a handler that has sent its request and awaits the reply is
\* eventually over (it returned, or its caller went away and it was
\* cancelled); when it answers 504 the REQUEST_TIMEOUT has elapsed since
\* the wait began and pending_requests does not hold its entry.
C26_SentRequestIsAnswered ==
    /\ \A h \in Handlers :
          (handler[h].pc = "waiting") ~> (handler[h].pc \in {"done", "cancelled"})
    /\ [](\A h \in Handlers :
            (handler[h].pc = "done" /\ handler[h].status = 504)
                => /\ handler[h].waited = REQUEST_TIMEOUT_SECONDS
                   /\ \A p \in Pods : h \notin pending_requests[p])

\* The session was removed while the request was outstanding; the deadline
\* passed and the handler answered 504.
C26_Witness ==
    \E h \in Handlers :
        /\ handler[h].pc = "done" /\ handler[h].status = 504
        /\ handler[h].waited = REQUEST_TIMEOUT_SECONDS
        /\ future[h].state = "cancelled"
        /\ ~HoldsEntry(handler[h].ws)

\* C27: a handler that has not answered yet is within REQUEST_TIMEOUT of the
\* moment its request was registered, also while it is suspended in the send.
C27_DeadlineCoversWholeHandler ==
    \A h \in Handlers :
        (handler[h].pc \in {"sending", "waiting"} /\ h \in pending_requests[handler[h].pod])
            => entry_age[h] <= REQUEST_TIMEOUT_SECONDS

\* C28: the dispatch of a response frame whose request_id has no entry in
\* its pod's pending_requests, or whose future is no longer pending, changes
\* nothing: no handler, no future, no entry of pending_requests and no
\* tunnel table.
C28_LateReplyIsNoOp ==
    [][\A s \in Sessions :
          (AwaitsFrame(conn[s]) /\ InReceiveLoop(conn[s]')
                /\ Len(inbox[s]') < Len(inbox[s])
                /\ Head(inbox[s]).type = "response")
              => LET r == Head(inbox[s]).request_id IN
                 (r \notin pending_requests[conn[s].pod] \/ future[r].state # "pending")
                     => /\ handler' = handler
                        /\ future' = future
                        /\ pending_requests' = pending_requests
                        /\ active_tunnels' = active_tunnels]_vars

\* =====================================================================
\* Claims about the rendered response (checked under SpecRender)
\* =====================================================================
\* Two characters are the same letter in either case, or the same character.
SameLetter(c, d) ==
    \/ c = d
    \/ \E i \in DOMAIN UpperCase : {c, d} = {UpperCase[i], LowerCase[i]}
EqualsIgnoringCase(a, b) ==
    /\ Len(a) = Len(b)
    /\ \A i \in 1 .. Len(a) : SameLetter(a[i], b[i])
HopByHop(k) ==
    EqualsIgnoringCase(k, content_length) \/ EqualsIgnoringCase(k, transfer_encoding)

\* C29: the headers of the rendered response are the agent's headers, with
\* their values, without every header whose name is Content-Length or
\* Transfer-Encoding in any letter case.
C29_HopByHopHeadersDropped ==
    response.rendered
        => /\ DOMAIN response.headers =
                  {k \in DOMAIN response_data.headers : ~HopByHop(k)}
           /\ \A k \in DOMAIN response.headers :
                  response.headers[k] = response_data.headers[k]

\* The agent sent Content-Length in mixed case, Transfer-Encoding in lower
\* case and a header whose name only contains "Content-Length"; the first
\* two were dropped and the third was kept.
C29_Witness ==
    /\ response.rendered
    /\ \E k \in DOMAIN response_data.headers :
          k # content_length /\ EqualsIgnoringCase(k, content_length)
    /\ transfer_encoding \in DOMAIN response_data.headers
    /\ \E k \in DOMAIN response.headers : Len(k) > Len(content_length) /\ k[1] = "X"
    /\ \A k \in DOMAIN response.headers : ~HopByHop(k)

\* =====================================================================
\* Claims about the slug cache (checked under SpecSlug)
\* =====================================================================
\* C30: a slug key is written only with the tunnel_id of a resolution the
\* Control Plane gave as active, and lives SLUG_CACHE_TTL seconds from its
\* last write: while it is there a read returns it and the handler goes on
\* with that tunnel_id without asking the Control Plane; when it is not
\* there, whatever earlier resolutions of the slug gave, the handler asks
\* the Control Plane.
C30_SlugCacheConsistent ==
    /\ [](\A g \in Slugs :
            IF slug_key[g] = Nil THEN slug_ttl[g] = 0
            ELSE slug_ttl[g] > 0 /\ slug_ttl[g] <= SLUG_CACHE_TTL)
    /\ [][\A g \in Slugs :
             (slug_key'[g] # slug_key[g] /\ slug_key'[g] # Nil) \/ slug_ttl'[g] > slug_ttl[g]
                 => /\ slug_ttl'[g] = SLUG_CACHE_TTL
                    /\ \E h \in Handlers :
                          /\ handler[h].pc = "cache_set" /\ handler'[h].pc # "cache_set"
                          /\ handler[h].slug = g
                          /\ handler[h].tunnel_id = slug_key'[g]
                          /\ handler[h].answer \in {"200_active", "unasked"}]_vars
    /\ [][\A h \in Handlers :
             (handler[h].pc = "idle" /\ handler'[h].pc # "idle" /\ ~handler'[h].cache_failed)
                 => LET cached == slug_key[handler'[h].slug] IN
                    IF cached = Nil THEN handler'[h].pc = "resolve"
                    ELSE /\ handler'[h].pc \in {"body", "sending", "done"}
                         /\ handler'[h].answer = "unasked"
                         /\ handler'[h].pc # "done" => handler'[h].tunnel_id = cached]_vars

\* Against a Control Plane, one request resolved the slug as active and
\* wrote the key; 40 seconds later another found it in the cache and went
\* on with the cached tunnel_id without asking.
C30_Witness ==
    /\ ~mock_mode
    /\ \E g \in Handlers, h \in Handlers :
          /\ handler[h].pc \in {"body", "sending"}
          /\ handler[h].answer = "unasked"
          /\ slug_key[handler[h].slug] = handler[h].tunnel_id
          /\ slug_ttl[handler[h].slug] = SLUG_CACHE_TTL - 2 * SlugTickSeconds
          /\ handler[g].pc \in {"body", "sending"}
          /\ handler[g].answer = "200_active"

\* =====================================================================
\* Claims about remove_tunnel (checked under Spec)
\* =====================================================================
\* C31: remove_tunnel is idempotent. On every pod and for every tunnel_id,
\* registered there or not, a second call right after the first raises
\* nothing and leaves the pod's active_tunnels, the heartbeat tasks, the
\* ownership records and the pod's set as the first call left them, and the
\* first call raises nothing either.
C31_RemoveIsIdempotent ==
    \A p \in Pods, t \in Tunnels :
        LET once == remove_tunnel(PodView(p), t)
            twice == remove_tunnel(once, t) IN
        /\ ~once.raised
        /\ ~twice.raised
        /\ twice = once

\* A handler is inside remove_tunnel for a tunnel_id whose entry and records
\* an earlier remove_tunnel on the same pod has already taken away: the
\* earlier session ended through its cleanup after this one had registered.
C31_Witness ==
    \E a \in Sessions, b \in Sessions :
        /\ a # b
        /\ conn[a].pod = conn[b].pod /\ conn[a].tunnel_id = conn[b].tunnel_id
        /\ conn[a].pc = "end" /\ conn[a].accepted /\ ~conn[a].store_error
        /\ conn[b].pc = "remove_store"
        /\ tunnel_key[conn[b].tunnel_id] = Nil
        /\ conn[b].tunnel_id \notin pod_tunnels[conn[b].pod]

\* The step is the DEL + SREM pipeline of session s's remove_tunnel.
IsRemoveStore(s) == conn[s].pc = "remove_store" /\ conn'[s].pc = "end"

\* The step is the pipeline of pod p's teardown.
IsTeardownExec(p) == pod_state[p] = "draining" /\ pod_state'[p] = "down"

\* C38: neither the cleanup of a session nor the teardown of a pod deletes
\* an ownership record that names another pod.
C38_NeverDeletesAnothersRecord ==
    [][/\ \A s \in Sessions :
             IsRemoveStore(s) => tunnel_key[conn[s].tunnel_id] \in {Nil, conn[s].pod}
       /\ \A p \in Pods :
             IsTeardownExec(p) => \A t \in teardown_ids[p] : tunnel_key[t] \in {Nil, p}]_vars

\* The step is the pop of session s's remove_tunnel.
IsRemoveLocal(s) == conn[s].pc = "cleanup" /\ conn'[s].pc = "remove_store"

\* The step stores the Tunnel of session s in active_tunnels.
IsRegistered(s) == conn[s].pc = "sadd" /\ conn'[s].pc = "open"

\* C39: the cleanup of a session takes away only that session's own Tunnel
\* (it pops no other session's entry, cancels no other session's heartbeat
\* and deletes no ownership record while another session holds the entry),
\* and register never replaces a live entry of active_tunnels.
C39_CleanupRemovesOnlyOwnTunnel ==
    [][\A s \in Sessions :
          LET p == conn[s].pod
              t == conn[s].tunnel_id IN
          /\ IsRemoveLocal(s)
                => /\ active_tunnels[p][t] \in {NoSession, s}
                   /\ \A x \in Sessions \ {s} : conn'[x].hb = conn[x].hb
          /\ IsRegistered(s) => active_tunnels[p][t] = NoSession]_vars

\* =====================================================================
\* Claims about the store and the local table (checked under SpecUnexpired)
\* =====================================================================
\* The tunnel_ids pod p holds an entry of.
LocalIds(p) == {t \in Tunnels : active_tunnels[p][t] # NoSession}

\* Pod p is running, no register and no remove is in flight on it (both
\* hold the manager's lock from their first store command to their last),
\* and the store has answered every command of the registers that ran there.
Quiescent(p) ==
    /\ pod_state[p] # "down"
    /\ lock[p] = NoSession
    /\ \A s \in Sessions : conn[s].pod = p => ~conn[s].store_error

\* The step is a command of a register of session s that the store refuses
\* or that follows the refusal: SET NX on a key that is there, or the GET.
IsRefusedRegisterStep(s) ==
    /\ ~conn'[s].store_error
    /\ \/ conn[s].pc = "setnx" /\ conn'[s].pc = "get"
       \/ conn[s].pc = "get" /\ conn'[s].pc = "end"

\* C35: while no ownership key has expired, whenever pod p is quiescent the
\* set pod:{p}:tunnels holds exactly the tunnel_ids of p's active_tunnels
\* and each of them has tunnel:{id} = p; a refused register changes neither
\* key.
C35_StoreMatchesLocalTable ==
    /\ [](\A p \in Pods :
            Quiescent(p)
                => /\ pod_tunnels[p] = LocalIds(p)
                   /\ \A t \in LocalIds(p) : tunnel_key[t] = p)
    /\ [][\A s \in Sessions :
             IsRefusedRegisterStep(s)
                 => tunnel_key' = tunnel_key /\ pod_tunnels' = pod_tunnels]_vars

\* =====================================================================
\* Claims about the frames an agent sends (checked under SpecLoop)
\* =====================================================================
\* The step is the receive loop of session s taking the frame at the head
\* of its inbox.
TakesFrame(s) ==
    /\ conn[s].pc = "open" /\ conn[s].sock = "open"
    /\ inbox[s] # <<>>
    /\ inbox'[s] # inbox[s]
    /\ conn'[s].pc # "open" \/ inbox'[s] = Tail(inbox[s])

\* Nothing was dispatched: no pending request resolved, no future touched,
\* no pong stamped, no pong reply started.
NothingDispatched(s) ==
    /\ pending_requests' = pending_requests
    /\ future' = future
    /\ last_pong' = last_pong
    /\ conn'[s].pings = conn[s].pings

\* C32: an inbound text frame longer than MAX_WS_PAYLOAD_BYTES is neither
\* parsed nor dispatched: the socket is closed with 1009 and the loop ends;
\* a frame of the limit or less is not closed on; and when the cleanup of a
\* session closed with 1009 is over, the pod holds no entry for the
\* tunnel_id and the store neither the ownership record nor the id in the
\* pod's set.
C32_OversizeFrameCloses1009 ==
    /\ [][\A s \in Sessions :
             TakesFrame(s)
                 => IF Head(inbox[s]).bytes > MAX_WS_PAYLOAD_BYTES
                    THEN /\ NothingDispatched(s)
                         /\ conn'[s].close_code = 1009
                         /\ conn'[s].sock = "closed"
                         /\ conn'[s].pc = "cleanup"
                    ELSE conn'[s].close_code = 0]_vars
    /\ [][\A s \in Sessions :
             (IsRemoveStore(s) /\ conn[s].close_code = 1009)
                 => /\ active_tunnels'[conn[s].pod][conn[s].tunnel_id] = NoSession
                    /\ tunnel_key'[conn[s].tunnel_id] = Nil
                    /\ conn[s].tunnel_id \notin pod_tunnels'[conn[s].pod]]_vars

\* The agent answered a forwarded request with a frame one byte above the
\* limit: the session was closed with 1009 and cleaned up, and the request
\* is still waiting for its reply.
C32_Witness ==
    \E s \in Sessions, h \in Handlers :
        /\ conn[s].close_code = 1009 /\ conn[s].pc = "end"
        /\ handler[h].ws = s /\ handler[h].pc = "waiting"
        /\ future[h].state = "pending"
        /\ tunnel_key[FirstTunnel] = Nil

\* A frame that is no well-formed response, pong or ping: malformed JSON,
\* JSON that is no object, an unknown type, a response without request_id.
NotWellFormed(message) ==
    \/ message.text \in {"bad_json", "non_object"}
    \/ message.text = "object" /\ message.type \notin {"response", "pong", "ping"}
    \/ message.text = "object" /\ message.type = "response" /\ message.request_id = NoRequest

\* C33: a frame within the size limit that is no well-formed response, pong
\* or ping is skipped: active_tunnels and pending_requests are unchanged,
\* the session stays open and the loop goes on to the frames behind it.
C33_MalformedFrameSkipped ==
    [][\A s \in Sessions :
          (TakesFrame(s) /\ NotWellFormed(Head(inbox[s]))
                /\ Head(inbox[s]).bytes <= MAX_WS_PAYLOAD_BYTES)
              => /\ active_tunnels' = active_tunnels
                 /\ pending_requests' = pending_requests
                 /\ conn'[s].pc = "open" /\ conn'[s].sock = "open"
                 /\ inbox'[s] = Tail(inbox[s])]_vars

\* C34: for every ping frame the receive loop of an admitted session takes,
\* the loop makes exactly one send of a pong frame on the session's socket
\* before it reads the next frame, and a send that fails leaves the session
\* in its loop: open, registered, its socket untouched.
C34_OnePongPerPing ==
    /\ [](\A s \in Sessions :
            /\ conn[s].pings = conn[s].pong_sends + (IF conn[s].pc = "pong_reply" THEN 1 ELSE 0)
            /\ conn[s].pongs <= conn[s].pong_sends)
    /\ [][\A s \in Sessions :
             conn'[s].pong_sends # conn[s].pong_sends
                 => /\ conn[s].pc = "pong_reply" /\ conn'[s].pc = "open"
                    /\ conn'[s].pong_sends = conn[s].pong_sends + 1
                    /\ conn'[s].sock = conn[s].sock
                    /\ active_tunnels' = active_tunnels
                    /\ inbox' = inbox]_vars

\* Two pings were taken on an open session: the send of the pong for the
\* first failed, the loop went on, and the pong for the second was sent.
C34_Witness ==
    \E s \in Sessions :
        /\ conn[s].pings = 2 /\ conn[s].pong_sends = 2 /\ conn[s].pongs = 1
        /\ conn[s].pc = "open" /\ conn[s].sock = "open"
        /\ active_tunnels[conn[s].pod][conn[s].tunnel_id] = s

\* =====================================================================
\* Claims about the end of an admitted session (checked under SpecEnd)
\* =====================================================================
\* The receive loop of session s has ended or is bound to: the handler is
\* in its finally clause, or its socket was closed under the loop.
LoopOver(s) ==
    \/ conn[s].pc = "cleanup"
    \/ conn[s].pc = "open" /\ conn[s].sock = "closed"

\* C36: every admitted session whose receive loop ends, by the agent's
\* disconnect, a close by the heartbeat, an oversize frame or an exception
\* of the dispatch, gets through remove_tunnel; and when it does, the pod
\* holds no entry for the tunnel_id, tunnel:{id} is deleted and the id is
\* out of the pod's set.
C36_EndedSessionIsCleanedUp ==
    /\ \A s \in Sessions : LoopOver(s) ~> conn[s].pc = "end"
    /\ [][\A s \in Sessions :
             IsRemoveStore(s)
                 => /\ active_tunnels'[conn[s].pod][conn[s].tunnel_id] = NoSession
                    /\ tunnel_key'[conn[s].tunnel_id] = Nil
                    /\ conn[s].tunnel_id \notin pod_tunnels'[conn[s].pod]]_vars

\* Both sessions were admitted on the pod and have been cleaned up, one
\* after an oversize frame, the other after its heartbeat task closed the
\* socket and returned.
C36_Witness ==
    \E a \in Sessions, b \in Sessions :
        /\ a # b
        /\ conn[a].pc = "end" /\ conn[a].close_code = 1009
        /\ conn[b].pc = "end" /\ conn[b].hb = "exited"
        /\ \A t \in Tunnels : active_tunnels[FirstPod][t] = NoSession
        /\ pod_tunnels[FirstPod] = {}

\* =====================================================================
\* Claims about tunnels sharing a pod (checked under SpecCross)
\* =====================================================================
\* C37: a pending request whose frame was sent over a tunnel is completed
\* only by a response frame received on that tunnel's socket, never by a
\* frame from another tunnel's session, whatever request_id it carries.
C37_ReplyOnlyFromOwnTunnel ==
    \A h \in Handlers :
        future[h].state = "done" => future[h].via = handler[h].ws

\* =====================================================================
\* Claims about the authority of the slug cache (checked under SpecSlug)
\* =====================================================================
\* The resolution handler h obtained in its request is a record for its
\* slug with status active: the Control Plane's answer, or the in-memory
\* record of the client's mock mode.
ResolvedActive(h) ==
    /\ handler[h].tunnel_id = SlugTunnel(handler[h].slug)
    /\ IF mock_mode THEN handler[h].slug = "my-slug" /\ handler[h].answer = "unasked"
       ELSE handler[h].answer = "200_active"

\* The step is the cache read of a request of handler h that finds the key.
IsCacheHit(h) ==
    /\ handler[h].pc = "idle" /\ handler'[h].pc # "idle"
    /\ ~handler'[h].cache_failed
    /\ slug_key[handler'[h].slug] # Nil

\* C40: slug:{slug} is written only by a request that has just resolved
\* that slug to a record with status active, and with that record's
\* tunnel_id; a request that finds the key is routed by it without a
\* resolution; and a key that is there changes only by running out of its
\* lifetime or by being written again, never because a resolution of the
\* slug was answered otherwise in between.
C40_CacheWrittenFromActiveRecordOnly ==
    /\ [](\A h \in Handlers : handler[h].pc = "cache_set" => ResolvedActive(h))
    /\ [][\A g \in Slugs :
             (slug_key'[g] # slug_key[g] /\ slug_key'[g] # Nil)
                 => \E h \in Handlers :
                       /\ handler[h].pc = "cache_set" /\ handler'[h].pc # "cache_set"
                       /\ handler[h].slug = g
                       /\ slug_key'[g] = handler[h].tunnel_id
                       /\ ResolvedActive(h)]_vars
    /\ [][\A h \in Handlers :
             IsCacheHit(h)
                 => /\ handler'[h].pc # "resolve"
                    /\ handler'[h].answer = "unasked"
                    /\ handler'[h].pc # "done"
                          => handler'[h].tunnel_id = slug_key[handler'[h].slug]]_vars
    /\ [][\A g \in Slugs :
             (slug_key[g] # Nil /\ slug_key'[g] # slug_key[g])
                 => \/ slug_key'[g] = Nil /\ slug_ttl'[g] = 0
                          /\ handler' = handler
                    \/ \E h \in Handlers :
                          handler[h].pc = "cache_set" /\ handler[h].slug = g]_vars

\* Against a Control Plane: one request's resolution of the slug was
\* answered as revoked and ended with 410 while the key another request
\* wrote for an active answer is in the cache, 20 seconds into its lifetime.
C40_Witness ==
    /\ ~mock_mode
    /\ \E g \in Handlers, h \in Handlers :
          /\ handler[g].answer = "200_active"
          /\ handler[g].pc \in {"body", "sending", "done"}
          /\ handler[h].answer = "200_revoked" /\ handler[h].status = 410
          /\ handler[h].slug = handler[g].slug
          /\ slug_key[handler[g].slug] = SlugTunnel(handler[g].slug)
          /\ slug_ttl[handler[g].slug] = SLUG_CACHE_TTL - SlugTickSeconds

====
